---- MODULE Spec2Model ----
(***************************************************************************)
(* State-machine model of the symbol-cosigner stores:                      *)
(*   - the address registry      (app/store/addresses.ts)                  *)
(*   - the node registry         (app/store/nodes.ts, kept in the second   *)
(*                                half of src/app/store/signing.ts)        *)
(*   - the signing orchestrator  (app/store/signing.ts, symbol-sign.ts,    *)
(*                                symbol-api.ts, PrivateKeyModal)          *)
(* Strings are sequences of one-character strings so that normalisation    *)
(* (hyphen stripping, case folding, trailing slash removal) is computed.   *)
(* Every `await` of the source is a scheduling point: the part of an       *)
(* async handler before the await and the part after it are two actions.   *)
(***************************************************************************)
EXTENDS Integers, Sequences, FiniteSets, TLC

\* ===== bounds of the model =====

\* largest value of the wall clock (new Date()); Tick advances it
MaxClock == 1

\* ===== values shared by all stores =====

\* JavaScript undefined / null for string-valued fields
Undefined == "undefined"
Null == "null"
\* JavaScript undefined for number- and date-valued fields
UndefinedNumber == 0 - 1

\* s repeated n times as a string (sequence of characters)
Rep(c, n) == [i \in 1..n |-> c]

\* String.prototype.replace(/c/g, "") : drop every occurrence of character c
SeqFilterOut(s, c) == SelectSeq(s, LAMBDA x : x # c)

\* String.prototype.toUpperCase on the characters the inputs use; "dotless i"
\* stands for the one character U+0131, whose upper case is the ASCII letter I
ToUpperChar(c) ==
  CASE c = "a" -> "A"
    [] c = "b" -> "B"
    [] c = "n" -> "N"
    [] c = "m" -> "M"
    [] c = "dotless i" -> "I"
    [] OTHER -> c

\* String.prototype.toLowerCase on the characters the inputs use
ToLowerChar(c) ==
  CASE c = "A" -> "a"
    [] c = "B" -> "b"
    [] c = "N" -> "n"
    [] c = "M" -> "m"
    [] OTHER -> c

ToUpperCase(s) == [i \in 1..Len(s) |-> ToUpperChar(s[i])]
ToLowerCase(s) == [i \in 1..Len(s) |-> ToLowerChar(s[i])]

\* index of the first element of seq satisfying Test, 0 when there is none
\* (Array.prototype.findIndex, 1-based; 0 stands for -1)
FindIndex(seq, Test(_)) ==
  IF \E i \in 1..Len(seq) : Test(seq[i])
  THEN CHOOSE i \in 1..Len(seq) : Test(seq[i]) /\ \A j \in 1..(i - 1) : ~Test(seq[j])
  ELSE 0

\* ===== address validation (app/utils/address-validation.ts) =====

BASE32_CHARS ==
  {"A","B","C","D","E","F","G","H","I","J","K","L","M","N","O","P","Q","R",
   "S","T","U","V","W","X","Y","Z","2","3","4","5","6","7"}

AddressLength == 39

normalizeAddressKeepCase(address) == SeqFilterOut(address, "-")
normalizeAddress(address) == ToUpperCase(SeqFilterOut(address, "-"))

\* validateSymbolAddress (a faulty variant hands back the input as the
\* normalized address)
validateSymbolAddressInputReturned(address) ==
  IF address = << >>
  THEN [isValid |-> FALSE, error |-> "empty", normalizedAddress |-> << >>]
  ELSE LET normalized == normalizeAddress(address) IN
       IF Len(normalized) # AddressLength
       THEN [isValid |-> FALSE, error |-> "length", normalizedAddress |-> << >>]
       ELSE IF ~(\A i \in 1..Len(normalized) : normalized[i] \in BASE32_CHARS)
       THEN [isValid |-> FALSE, error |-> "charset", normalizedAddress |-> << >>]
       ELSE [isValid |-> TRUE, error |-> Undefined, normalizedAddress |-> address]
validateSymbolAddress(address) ==
  IF address = << >>
  THEN [isValid |-> FALSE, error |-> "empty", normalizedAddress |-> << >>]
  ELSE LET normalized == normalizeAddress(address) IN
       IF Len(normalized) # AddressLength
       THEN [isValid |-> FALSE, error |-> "length", normalizedAddress |-> << >>]
       ELSE IF ~(\A i \in 1..Len(normalized) : normalized[i] \in BASE32_CHARS)
       THEN [isValid |-> FALSE, error |-> "charset", normalizedAddress |-> << >>]
       ELSE [isValid |-> TRUE, error |-> Undefined, normalizedAddress |-> normalized]

\* the 0-based offsets of the hyphens of the 45-character form
expectedHyphens == {6, 13, 20, 27, 34, 41}

\* validateFormattedAddress: the 45-character form with hyphens; the
\* characters are tested as they are, without conversion to upper case
validateFormattedAddress(address) ==
  IF Len(address) # 45 THEN FALSE
  ELSE IF \E pos \in expectedHyphens : address[pos + 1] # "-" THEN FALSE
  ELSE LET withoutHyphens == SeqFilterOut(address, "-") IN
       /\ Len(withoutHyphens) = AddressLength
       /\ \A i \in 1..Len(withoutHyphens) : withoutHyphens[i] \in BASE32_CHARS

\* ===== node validation (app/utils/node-validation.ts) =====

\* A URL is a sequence of tokens: a scheme, a host, an optional port and
\* trailing slashes; the host is a one-letter token (or localhost / 127.0.0.1)
UrlSchemes == {"https://", "http://"}
UrlPorts == {":3000", ":3001", ":8080"}
\* the argument a caller left out
UndefinedUrl == << Undefined >>

NetworkTypes == {"TESTNET", "MAINNET"}

\* new URL(url): protocol, hostname (lower-cased by the parser) and port
ParseUrl(url) ==
  IF /\ Len(url) >= 2
     /\ url[1] \in UrlSchemes
     /\ url[2] \notin (UrlSchemes \cup UrlPorts \cup {"/"})
     /\ \A i \in 3..Len(url) : IF i = 3 THEN url[i] \in (UrlPorts \cup {"/"}) ELSE url[i] = "/"
  THEN [ok |-> TRUE, protocol |-> url[1], hostname |-> ToLowerChar(url[2]),
        port |-> IF Len(url) >= 3 /\ url[3] \in UrlPorts THEN url[3] ELSE ""]
  ELSE [ok |-> FALSE, protocol |-> "", hostname |-> "", port |-> ""]

\* validateNodeUrl (a faulty variant lets every port pass)
validateNodeUrlAnyPort(url) ==
  IF url = << >> THEN [isValid |-> FALSE, error |-> "url missing"]
  ELSE LET parsedUrl == ParseUrl(url) IN
       IF ~parsedUrl.ok THEN [isValid |-> FALSE, error |-> "invalid url format"]
       ELSE IF parsedUrl.protocol # "https://"
       THEN [isValid |-> FALSE, error |-> "https required"]
       ELSE IF parsedUrl.hostname \in {"", "localhost", "127.0.0.1"}
       THEN [isValid |-> FALSE, error |-> "localhost not allowed"]
       ELSE [isValid |-> TRUE, error |-> Undefined]
validateNodeUrl(url) ==
  IF url = << >> THEN [isValid |-> FALSE, error |-> "url missing"]
  ELSE LET parsedUrl == ParseUrl(url) IN
       IF ~parsedUrl.ok THEN [isValid |-> FALSE, error |-> "invalid url format"]
       ELSE IF parsedUrl.protocol # "https://"
       THEN [isValid |-> FALSE, error |-> "https required"]
       ELSE IF parsedUrl.port # "" /\ parsedUrl.port \notin {":3000", ":3001"}
       THEN [isValid |-> FALSE, error |-> "port must be 3000 or 3001"]
       ELSE IF parsedUrl.hostname \in {"", "localhost", "127.0.0.1"}
       THEN [isValid |-> FALSE, error |-> "localhost not allowed"]
       ELSE [isValid |-> TRUE, error |-> Undefined]

validateNetworkType(network) == network = "TESTNET" \/ network = "MAINNET"

\* String.prototype.replace(/\/$/, ""): removes one trailing slash
StripTrailingSlash(s) ==
  IF Len(s) > 0 /\ s[Len(s)] = "/" THEN SubSeq(s, 1, Len(s) - 1) ELSE s

normalizeNodeUrl(url) == StripTrailingSlash(ToLowerCase(url))

\* network.toLowerCase()
NetworkToLowerCase(network) ==
  CASE network = "TESTNET" -> "testnet"
    [] network = "MAINNET" -> "mainnet"
    [] OTHER -> network

\* btoa(s).replace(/[^a-zA-Z0-9]/g, ""): an encoding of the string, kept
\* apart from the string itself by its tag
Btoa(s) == << "btoa" >> \o s

NoId == [prefix |-> Undefined, encoded |-> << >>]

\* generateNodeId(url, network); url.toLowerCase() throws a TypeError when
\* the url argument is left out
generateNodeId(url, network) ==
  IF url = UndefinedUrl
  THEN [threw |-> TRUE, id |-> NoId]
  ELSE LET normalizedUrl == StripTrailingSlash(ToLowerCase(url)) IN
       [threw |-> FALSE,
        id |-> [prefix |-> NetworkToLowerCase(network), encoded |-> Btoa(normalizedUrl)]]

\* ----- health check of one node -----

\* what the GET {url}/node/info request can end in: a 2xx response with a
\* node-info body, a non-2xx response, an abort by the timeout, a failed
\* connection, a 2xx response whose body is not JSON, and a 2xx response whose
\* body is the JSON value null (reading nodeInfo.version then throws a
\* TypeError inside the try block)
HealthOutcomes == {"ok", "httpError", "timeout", "networkError", "invalidJson", "nullBody"}

NodeInfoKeys == {"version", "publicKey", "networkGenerationHashSeed", "networkIdentifier",
                 "roles", "port", "host", "friendlyName"}

\* the body of a 2xx response of /node/info
NodeInfoResponse ==
  [version |-> "v1", publicKey |-> "nodePublicKey", networkGenerationHashSeed |-> "seed",
   networkIdentifier |-> 152, roles |-> 3, port |-> 7900, host |-> "host",
   friendlyName |-> "friendly"]

NoNodeInfo ==
  [version |-> Undefined, publicKey |-> Undefined, networkGenerationHashSeed |-> Undefined,
   networkIdentifier |-> UndefinedNumber, roles |-> UndefinedNumber, port |-> UndefinedNumber,
   host |-> Undefined, friendlyName |-> Undefined]

\* performNodeHealthCheck(nodeId, url) started at startTime and answered at
\* endTime with the given outcome
performNodeHealthCheck(nodeId, startTime, endTime, outcome) ==
  LET responseTime == endTime - startTime IN
  CASE outcome = "ok" ->
         [nodeId |-> nodeId, checkedAt |-> startTime, status |-> "online",
          responseTime |-> responseTime, error |-> Undefined,
          hasNodeInfo |-> TRUE, nodeInfo |-> NodeInfoResponse]
    [] outcome = "httpError" ->
         [nodeId |-> nodeId, checkedAt |-> startTime, status |-> "offline",
          responseTime |-> responseTime, error |-> "HTTP 500: Internal Server Error",
          hasNodeInfo |-> FALSE, nodeInfo |-> NoNodeInfo]
    [] outcome = "timeout" ->
         [nodeId |-> nodeId, checkedAt |-> startTime, status |-> "offline",
          responseTime |-> responseTime, error |-> "Request timeout",
          hasNodeInfo |-> FALSE, nodeInfo |-> NoNodeInfo]
    [] outcome = "networkError" ->
         [nodeId |-> nodeId, checkedAt |-> startTime, status |-> "offline",
          responseTime |-> responseTime, error |-> "Network error",
          hasNodeInfo |-> FALSE, nodeInfo |-> NoNodeInfo]
    [] outcome = "invalidJson" ->
         [nodeId |-> nodeId, checkedAt |-> startTime, status |-> "offline",
          responseTime |-> responseTime, error |-> "Unexpected token < in JSON",
          hasNodeInfo |-> FALSE, nodeInfo |-> NoNodeInfo]
    [] OTHER ->
         [nodeId |-> nodeId, checkedAt |-> startTime, status |-> "offline",
          responseTime |-> responseTime, error |-> "Network error",
          hasNodeInfo |-> FALSE, nodeInfo |-> NoNodeInfo]

\* ----- detection of the network of a node -----

\* a value of nodeInfo.networkIdentifier: a JSON number, a JSON string, or
\* undefined when the body has no such key
NumberValue(n) == [type |-> "number", number |-> n, string |-> ""]
StringValue(s) == [type |-> "string", number |-> 0, string |-> s]
UndefinedValue == [type |-> "undefined", number |-> 0, string |-> ""]

\* determineNetworkFromIdentifier: a switch, which compares with ===
determineNetworkFromIdentifier(networkIdentifier) ==
  CASE networkIdentifier = NumberValue(104) -> "MAINNET"
    [] networkIdentifier = NumberValue(152) -> "TESTNET"
    [] OTHER -> Null

\* detectNodeNetwork(url): the request ends in outcome; networkIdentifier is
\* the value of that key in the body of a 2xx response.  The result is either
\* { network, nodeInfo } or { error }; nothing is thrown, the whole body is
\* inside try / catch.
detectNodeNetwork(outcome, networkIdentifier) ==
  CASE outcome = "ok" ->
         LET network == determineNetworkFromIdentifier(networkIdentifier) IN
         IF network = Null
         THEN [hasError |-> TRUE, error |-> "unsupported network",
               network |-> Null, networkIdentifier |-> networkIdentifier]
         ELSE [hasError |-> FALSE, error |-> Undefined,
               network |-> network, networkIdentifier |-> networkIdentifier]
    [] outcome = "httpError" ->
         [hasError |-> TRUE, error |-> "HTTP 500: Internal Server Error",
          network |-> Null, networkIdentifier |-> UndefinedValue]
    [] outcome = "timeout" ->
         [hasError |-> TRUE, error |-> "connection timed out",
          network |-> Null, networkIdentifier |-> UndefinedValue]
    [] outcome = "networkError" ->
         [hasError |-> TRUE, error |-> "could not connect to the node",
          network |-> Null, networkIdentifier |-> UndefinedValue]
    [] outcome = "invalidJson" ->
         [hasError |-> TRUE, error |-> "Unexpected token < in JSON",
          network |-> Null, networkIdentifier |-> UndefinedValue]
    [] OTHER ->
         [hasError |-> TRUE, error |-> "could not connect to the node",
          network |-> Null, networkIdentifier |-> UndefinedValue]

\* ----- quality and sort order of a node -----

\* evaluateNodeQuality(responseTime); responseTime is a number or undefined
\* (a faulty variant counts each limit to the better class)
evaluateNodeQualityInclusive(responseTime) ==
  IF responseTime = UndefinedValue THEN "unknown"
  ELSE IF responseTime.number <= 100 THEN "excellent"
  ELSE IF responseTime.number <= 500 THEN "good"
  ELSE IF responseTime.number <= 2000 THEN "fair"
  ELSE "poor"
evaluateNodeQuality(responseTime) ==
  IF responseTime = UndefinedValue THEN "unknown"
  ELSE IF responseTime.number < 100 THEN "excellent"
  ELSE IF responseTime.number < 500 THEN "good"
  ELSE IF responseTime.number < 2000 THEN "fair"
  ELSE "poor"

getNodeStatusPriority(status) ==
  CASE status = "online" -> 0
    [] status = "unknown" -> 1
    [] status = "offline" -> 2
    [] OTHER -> 3

getNodeQualityPriority(responseTime) ==
  LET quality == evaluateNodeQuality(responseTime) IN
  CASE quality = "excellent" -> 0
    [] quality = "good" -> 1
    [] quality = "fair" -> 2
    [] quality = "poor" -> 3
    [] quality = "unknown" -> 4
    [] OTHER -> 5

\* performBatchHealthCheck(nodes): the checks of all nodes joined by
\* Promise.all; outcomes[k] is the outcome of the request to the k-th node (a
\* faulty variant returns the records of the nodes that answered only)
performBatchHealthCheckOnlineOnly(nodeList, startTime, endTime, outcomes) ==
  SelectSeq([k \in 1..Len(nodeList) |->
               performNodeHealthCheck(nodeList[k].id, startTime, endTime, outcomes[k])],
            LAMBDA healthCheck : healthCheck.status = "online")
performBatchHealthCheck(nodeList, startTime, endTime, outcomes) ==
  [k \in 1..Len(nodeList) |->
     performNodeHealthCheck(nodeList[k].id, startTime, endTime, outcomes[k])]

\* ===== signing utility (app/utils/symbol-sign.ts) =====

HexChars == {"0","1","2","3","4","5","6","7","8","9",
             "A","B","C","D","E","F","a","b","c","d","e","f"}
HexLength == 64

\* /^[0-9A-Fa-f]{64}$/
IsHex64(s) == Len(s) = HexLength /\ \A i \in 1..Len(s) : s[i] \in HexChars

\* validatePrivateKey: format check, then new PrivateKey(key), which accepts
\* every 32-byte value
validatePrivateKey(privateKey) == IsHex64(privateKey)

\* validateTransactionHash: format check, then utils.hexToUint8(hash) (a
\* faulty variant rejects the empty hash only)
validateTransactionHashNonEmpty(hash) == hash # << >>
validateTransactionHash(hash) == IsHex64(hash)

\* what the calls into symbol-sdk can do once key and hash passed validation:
\* return the cosignature, or throw an Error whose message mentions
\* "private key", "hash", "network" or none of them, or throw a non-Error
SdkOutcomes == {"ok", "throwPrivateKey", "throwHash", "throwNetwork", "throwOther",
                "throwNonError"}

NullCosignature ==
  [parentHash |-> << >>, signature |-> << >>, signerPublicKey |-> << >>, version |-> Null]

\* account.cosignTransactionHash(hash, true).toJson()
cosignTransactionHash(privateKey, transactionHash) ==
  [parentHash |-> ToUpperCase(transactionHash),
   signature |-> << "signature-of" >> \o ToUpperCase(transactionHash),
   signerPublicKey |-> << "public-key-of-signer" >>,
   version |-> "0"]

\* signTransaction(params): the result, and the value its working variable
\* privateKeyString holds when it returns.  clearPrivateKey(privateKeyString)
\* assigns to its own parameter only; the assignment privateKeyString = ""
\* that follows it is on the success and the exception path, not on the two
\* early returns.
signTransaction(privateKey, transactionHash, network, sdkOutcome) ==
  IF ~validatePrivateKey(privateKey)
  THEN [success |-> FALSE, cosignature |-> NullCosignature,
        error |-> "invalid private key format", privateKeyString |-> privateKey]
  ELSE IF ~validateTransactionHash(transactionHash)
  THEN [success |-> FALSE, cosignature |-> NullCosignature,
        error |-> "invalid transaction hash format", privateKeyString |-> privateKey]
  ELSE IF network \notin {"TESTNET", "MAINNET"}
  THEN \* getSymbolNetwork throws; the message names the network type only
       [success |-> FALSE, cosignature |-> NullCosignature,
        error |-> "signing failed: unsupported network type", privateKeyString |-> << >>]
  ELSE CASE sdkOutcome = "ok" ->
              [success |-> TRUE,
               cosignature |-> cosignTransactionHash(privateKey, transactionHash),
               error |-> Undefined, privateKeyString |-> << >>]
         [] sdkOutcome = "throwPrivateKey" ->
              [success |-> FALSE, cosignature |-> NullCosignature,
               error |-> "private key is invalid", privateKeyString |-> << >>]
         [] sdkOutcome = "throwHash" ->
              [success |-> FALSE, cosignature |-> NullCosignature,
               error |-> "transaction hash is invalid", privateKeyString |-> << >>]
         [] sdkOutcome = "throwNetwork" ->
              [success |-> FALSE, cosignature |-> NullCosignature,
               error |-> "network setting is invalid", privateKeyString |-> << >>]
         [] sdkOutcome = "throwOther" ->
              [success |-> FALSE, cosignature |-> NullCosignature,
               error |-> "signing failed: sdk error", privateKeyString |-> << >>]
         [] OTHER ->
              [success |-> FALSE, cosignature |-> NullCosignature,
               error |-> "unexpected error", privateKeyString |-> << >>]

\* ===== cosignature announce (app/utils/symbol-api.ts) =====

\* what PUT {node}/transactions/cosignature can end in: a 2xx status (202 or
\* another one), HTTPError 400 / 409 / other, TimeoutError, another Error
\* (connectivity), or a thrown value that is not an Error
AnnounceOutcomes == {"202", "200", "400", "409", "500", "timeout", "networkError", "nonError"}

\* the parameter checks announceCosignature makes before it sends the request
AnnounceParamsError(nodeUrl, cosignature) ==
  IF nodeUrl = << >> THEN "node url is required"
  ELSE IF cosignature.parentHash = << >> \/ cosignature.signature = << >>
          \/ cosignature.signerPublicKey = << >>
  THEN "cosignature data is incomplete"
  ELSE Undefined

\* the status code announceCosignature reports as accepted (a faulty variant takes
\* every 2xx status as success)
Announce2xxAccepted(outcome) == outcome \in {"202", "200"}
AnnounceAccepted(outcome) == outcome = "202"

\* announceCosignature(nodeUrl, cosignature), given the outcome of the request
announceCosignature(nodeUrl, cosignature, outcome) ==
  IF AnnounceParamsError(nodeUrl, cosignature) # Undefined
  THEN [success |-> FALSE, code |-> "INVALID_PARAMS",
        message |-> AnnounceParamsError(nodeUrl, cosignature)]
  ELSE IF AnnounceAccepted(outcome)
  THEN [success |-> TRUE, code |-> Undefined, message |-> "cosignature announced"]
  ELSE CASE outcome \in {"202", "200"} ->
              [success |-> FALSE, code |-> "UNEXPECTED_RESPONSE",
               message |-> "unexpected response"]
         [] outcome = "400" ->
              [success |-> FALSE, code |-> "INVALID_CONTENT", message |-> "invalid request content"]
         [] outcome = "409" ->
              [success |-> FALSE, code |-> "VALIDATION_ERROR",
               message |-> "cosignature validation failed"]
         [] outcome = "500" ->
              [success |-> FALSE, code |-> "SERVER_ERROR", message |-> "server error: 500"]
         [] outcome = "timeout" ->
              [success |-> FALSE, code |-> "TIMEOUT", message |-> "request timed out"]
         [] outcome = "networkError" ->
              [success |-> FALSE, code |-> "NETWORK_ERROR", message |-> "network connection failed"]
         [] OTHER ->
              [success |-> FALSE, code |-> "UNKNOWN_ERROR", message |-> "unexpected error"]

\* ===== state =====

VARIABLES
  now,             \* wall clock read by new Date()
  lastOp,          \* name and outcome (returned / thrown error) of the last operation
  addresses,       \* addressesAtom: Address[]
  nodes,           \* nodesAtom: Node[]
  currentNetwork,  \* currentNetworkAtom
  selectedNodeId,  \* selectedNodeIdAtom
  pendingChecks,   \* health checks awaiting the response of GET /node/info
  signingState,    \* signingStateAtom
  attempts,        \* invocations of executeSigningAtom, by slot
  modal,           \* PrivateKeyModal: isOpen prop, privateKey state, awaited attempt
  transactionListState,  \* transactionListStateAtom
  pendingFetches   \* invocations of fetchTransactionsAtom awaiting fetchPartialTransactions

vars == << now, lastOp, addresses, nodes, currentNetwork, selectedNodeId,
           pendingChecks, signingState, attempts, modal, transactionListState,
           pendingFetches >>
addressVars == << addresses >>
nodeVars == << nodes, currentNetwork, selectedNodeId, pendingChecks >>
signingVars == << signingState, attempts, modal >>
transactionVars == << transactionListState, pendingFetches >>

\* initial value of transactionListStateAtom; error null is the empty message
InitialTransactionListState ==
  [transactions |-> << >>, loading |-> FALSE, error |-> << >>,
   lastUpdated |-> 0 - 1]

\* ===== preset nodes (app/utils/preset-nodes.ts) =====

presetServers ==
  [TESTNET |-> << << "https://", "sym-test-01.opening-line.jp", ":3001" >>,
                  << "https://", "sym-test-03.opening-line.jp", ":3001" >> >>,
   MAINNET |-> << << "https://", "sym-main-01.opening-line.jp", ":3001" >>,
                  << "https://", "sym-main-02.opening-line.jp", ":3001" >> >>]

\* createPresetNode(url, network, index); index counts from 0.  The id is
\* computed by generateNodeId() called without arguments.
createPresetNode(url, network, index) ==
  LET normalizedUrl == normalizeNodeUrl(url)
      nodeId == generateNodeId(UndefinedUrl, Undefined)
  IN
  IF nodeId.threw
  THEN [threw |-> TRUE, node |-> << >>]
  ELSE [threw |-> FALSE,
        node |-> << [id |-> nodeId.id, url |-> normalizedUrl, network |-> network,
                     active |-> (index = 0), memo |-> "preset", createdAt |-> now,
                     lastUsedAt |-> UndefinedNumber, status |-> "unknown",
                     responseTime |-> UndefinedNumber, lastCheckedAt |-> UndefinedNumber,
                     lastError |-> Undefined,
                     version |-> Undefined, publicKey |-> Undefined,
                     networkGenerationHashSeed |-> Undefined,
                     networkIdentifier |-> UndefinedNumber, roles |-> UndefinedNumber,
                     port |-> UndefinedNumber, host |-> Undefined,
                     friendlyName |-> url[2]] >>]

RECURSIVE PresetNodesOf(_, _, _)
\* the forEach loop of getPresetNodes over one network: a url whose node
\* cannot be created is skipped (try / catch with console.warn)
PresetNodesOf(urls, network, index) ==
  IF index >= Len(urls) THEN << >>
  ELSE createPresetNode(urls[index + 1], network, index).node
         \o PresetNodesOf(urls, network, index + 1)

getPresetNodes ==
  PresetNodesOf(presetServers.TESTNET, "TESTNET", 0)
    \o PresetNodesOf(presetServers.MAINNET, "MAINNET", 0)

shouldInitializePresetNodes(existingNodes) ==
  IF Len(existingNodes) = 0 THEN TRUE
  ELSE LET presetNodes == getPresetNodes
           existingPresetNodes ==
             SelectSeq(existingNodes,
                       LAMBDA node : \E i \in 1..Len(presetNodes) : presetNodes[i].id = node.id)
       IN Len(existingPresetNodes) = 0

mergeWithPresetNodes(existingNodes) ==
  LET presetNodes == getPresetNodes
      existingNodeIds == {existingNodes[i].id : i \in 1..Len(existingNodes)}
      newPresetNodes == SelectSeq(presetNodes, LAMBDA preset : preset.id \notin existingNodeIds)
  IN existingNodes \o newPresetNodes

\* ===== address registry (app/store/addresses.ts) =====

\* raw address strings offered to addAddress
AddrA == Rep("A", 39)
AddrB == Rep("B", 39)
AddrALower == Rep("a", 39)
AddrAHyphen == Rep("A", 6) \o << "-" >> \o Rep("A", 33)
AddrShort == Rep("A", 38)
AddrBadChar == Rep("A", 38) \o << "1" >>
AddressInputs == {AddrA, AddrB, AddrALower, AddrAHyphen, AddrShort, AddrBadChar, << >>}
\* keys offered to updateAddress / removeAddress / setActiveAddress
AddressKeys == {AddrA, AddrB}
MemoInputs == {"", "memo"}

\* lastOp: the operation that ran last, whether it returned or threw, and for
\* the steps of a signing attempt the slot of the attempt, the outcome of the
\* awaited call and the functions (signTransaction, announceCosignature) the
\* step called
Returned(name) ==
  [name |-> name, ok |-> TRUE, error |-> Undefined, slot |-> 0, outcome |-> "", calls |-> {},
   value |-> << >>]
Thrown(name, msg) ==
  [name |-> name, ok |-> FALSE, error |-> msg, slot |-> 0, outcome |-> "", calls |-> {},
   value |-> << >>]
SigningStep(name, slot, outcome, calls) ==
  [name |-> name, ok |-> TRUE, error |-> Undefined, slot |-> slot, outcome |-> outcome,
   calls |-> calls, value |-> << >>]
\* an operation that returned a sequence of records to its caller, after the
\* requests it made ended in outcome
ReturnedValue(name, outcome, value) ==
  [name |-> name, ok |-> TRUE, error |-> Undefined, slot |-> 0, outcome |-> outcome,
   calls |-> {}, value |-> value]

\* activeAddressAtom: the first record with active = true; the empty string
\* stands for null
activeAddress ==
  LET i == FindIndex(addresses, LAMBDA addr : addr.active) IN
  IF i = 0 THEN << >> ELSE addresses[i].address

Deactivated(list) == [i \in 1..Len(list) |-> [list[i] EXCEPT !.active = FALSE]]

\* the list addAddress appends to when params.active is set (a faulty variant drops
\* the deactivation of the other records)
AddAddressBaseNoDeactivate(list, active) == list
AddAddressBase(list, active) == IF active THEN Deactivated(list) ELSE list

\* addAddressAtom; hasActive tells whether params carries an active key
addAddress(address, memo, hasActive, active) ==
  LET validation == validateSymbolAddress(address)
      normalizedAddress == validation.normalizedAddress
      wantActive == hasActive /\ active
  IN
  IF ~validation.isValid \/ normalizedAddress = << >>
  THEN /\ lastOp' = Thrown("addAddress", validation.error)
       /\ UNCHANGED addresses
  ELSE IF \E i \in 1..Len(addresses) : addresses[i].address = normalizedAddress
  THEN /\ lastOp' = Thrown("addAddress", "duplicate")
       /\ UNCHANGED addresses
  ELSE LET updatedAddresses == AddAddressBase(addresses, wantActive)
           newAddress == [address |-> normalizedAddress,
                          memo |-> memo,
                          active |-> wantActive,
                          createdAt |-> now,
                          lastUsedAt |-> UndefinedNumber]
       IN /\ addresses' = Append(updatedAddresses, newAddress)
          /\ lastOp' = Returned("addAddress")

\* updateAddressAtom; has is the set of keys present in params
updateAddress(address, has, memo, active, lastUsedAt) ==
  LET targetIndex == FindIndex(addresses, LAMBDA addr : addr.address = address) IN
  IF targetIndex = 0
  THEN /\ lastOp' = Thrown("updateAddress", "not found")
       /\ UNCHANGED addresses
  ELSE LET wantActive == "active" \in has /\ active
           base == IF wantActive /\ ~addresses[targetIndex].active
                   THEN Deactivated(addresses)
                   ELSE addresses
           old == base[targetIndex]
           merged == [address |-> address,
                      memo |-> IF "memo" \in has THEN memo ELSE old.memo,
                      active |-> IF "active" \in has THEN active ELSE old.active,
                      createdAt |-> old.createdAt,
                      lastUsedAt |-> IF "lastUsedAt" \in has /\ lastUsedAt # UndefinedNumber
                                     THEN lastUsedAt ELSE now]
       IN /\ addresses' = [base EXCEPT ![targetIndex] = merged]
          /\ lastOp' = Returned("updateAddress")

\* removeAddressAtom (a faulty variant makes the first remaining record active
\* when the removed one was)
removeAddressPromoting(targetAddress) ==
  LET filteredAddresses == SelectSeq(addresses, LAMBDA addr : addr.address # targetAddress) IN
  IF Len(filteredAddresses) = Len(addresses)
  THEN /\ lastOp' = Thrown("removeAddress", "not found")
       /\ UNCHANGED addresses
  ELSE /\ addresses' =
            IF activeAddress = targetAddress /\ filteredAddresses # << >>
            THEN [filteredAddresses EXCEPT ![1].active = TRUE]
            ELSE filteredAddresses
       /\ lastOp' = Returned("removeAddress")
removeAddress(targetAddress) ==
  LET filteredAddresses == SelectSeq(addresses, LAMBDA addr : addr.address # targetAddress) IN
  IF Len(filteredAddresses) = Len(addresses)
  THEN /\ lastOp' = Thrown("removeAddress", "not found")
       /\ UNCHANGED addresses
  ELSE /\ addresses' = filteredAddresses
       /\ lastOp' = Returned("removeAddress")

\* setActiveAddressAtom (a faulty variant stamps lastUsedAt on every record)
setActiveAddressStampingAll(targetAddress) ==
  LET targetExists == \E i \in 1..Len(addresses) : addresses[i].address = targetAddress IN
  IF ~targetExists
  THEN /\ lastOp' = Thrown("setActiveAddress", "not found")
       /\ UNCHANGED addresses
  ELSE /\ addresses' = [i \in 1..Len(addresses) |->
                          [addresses[i] EXCEPT
                             !.active = (addresses[i].address = targetAddress),
                             !.lastUsedAt = now]]
       /\ lastOp' = Returned("setActiveAddress")
setActiveAddress(targetAddress) ==
  LET targetExists == \E i \in 1..Len(addresses) : addresses[i].address = targetAddress IN
  IF ~targetExists
  THEN /\ lastOp' = Thrown("setActiveAddress", "not found")
       /\ UNCHANGED addresses
  ELSE /\ addresses' = [i \in 1..Len(addresses) |->
                          [addresses[i] EXCEPT
                             !.active = (addresses[i].address = targetAddress),
                             !.lastUsedAt = IF addresses[i].address = targetAddress
                                            THEN now ELSE addresses[i].lastUsedAt]]
       /\ lastOp' = Returned("setActiveAddress")

\* time passes between two operations
Tick ==
  /\ now < MaxClock
  /\ now' = now + 1
  /\ UNCHANGED << lastOp, transactionVars, addressVars, nodeVars, signingVars >>

\* ===== node registry (app/store/nodes.ts) =====

NodeFields ==
  {"id", "url", "network", "active", "memo", "createdAt", "lastUsedAt",
   "status", "responseTime", "lastCheckedAt", "lastError"} \cup NodeInfoKeys

\* activeNodeAtom: the first active node of the current network, as a
\* sequence of zero or one node
activeNode ==
  LET i == FindIndex(nodes, LAMBDA node : node.active /\ node.network = currentNetwork) IN
  IF i = 0 THEN << >> ELSE << nodes[i] >>

\* the active flag addNode stores: params.active ?? false
NewNodeActive(hasActive, active) == hasActive /\ active

\* addNodeAtom; hasActive / hasMemo tell whether params carries the key
addNode(url, network, hasActive, active, hasMemo, memo) ==
  LET urlValidation == validateNodeUrl(url) IN
  IF ~urlValidation.isValid
  THEN /\ lastOp' = Thrown("addNode", urlValidation.error)
       /\ UNCHANGED nodes
  ELSE IF ~validateNetworkType(network)
  THEN /\ lastOp' = Thrown("addNode", "Invalid network type")
       /\ UNCHANGED nodes
  ELSE LET normalizedUrl == normalizeNodeUrl(url)
           nodeId == generateNodeId(normalizedUrl, network).id
       IN
       IF \E i \in 1..Len(nodes) : nodes[i].id = nodeId
       THEN /\ lastOp' = Thrown("addNode", "duplicate")
            /\ UNCHANGED nodes
       ELSE LET newNode ==
                  [id |-> nodeId, url |-> normalizedUrl, network |-> network,
                   active |-> NewNodeActive(hasActive, active),
                   memo |-> IF hasMemo THEN memo ELSE "",
                   createdAt |-> now, lastUsedAt |-> UndefinedNumber,
                   status |-> "unknown", responseTime |-> UndefinedNumber,
                   lastCheckedAt |-> UndefinedNumber, lastError |-> Undefined,
                   version |-> Undefined, publicKey |-> Undefined,
                   networkGenerationHashSeed |-> Undefined,
                   networkIdentifier |-> UndefinedNumber, roles |-> UndefinedNumber,
                   port |-> UndefinedNumber, host |-> Undefined,
                   friendlyName |-> Undefined]
            IN /\ nodes' = Append(nodes, newNode)
               /\ lastOp' = Returned("addNode")

\* the write function of updateNodeAtom applied to a node list; params.has is
\* the set of keys present in params (id is always present)
updateNodeIn(list, params) ==
  LET nodeIndex == FindIndex(list, LAMBDA node : node.id = params.id) IN
  IF nodeIndex = 0
  THEN [ok |-> FALSE, nodes |-> list, error |-> "not found"]
  ELSE IF "url" \in params.has /\ ~validateNodeUrl(params.url).isValid
  THEN [ok |-> FALSE, nodes |-> list, error |-> validateNodeUrl(params.url).error]
  ELSE IF "network" \in params.has /\ ~validateNetworkType(params.network)
  THEN [ok |-> FALSE, nodes |-> list, error |-> "Invalid network type"]
  ELSE LET old == list[nodeIndex]
           updatedNode ==
             [f \in NodeFields |->
                IF f = "url"
                THEN IF "url" \in params.has /\ params.url # << >>
                     THEN normalizeNodeUrl(params.url) ELSE old.url
                ELSE IF f \in params.has THEN params[f] ELSE old[f]]
       IN [ok |-> TRUE, nodes |-> [list EXCEPT ![nodeIndex] = updatedNode],
           error |-> Undefined]

\* updateNodeAtom
updateNode(params) ==
  LET r == updateNodeIn(nodes, params) IN
  IF r.ok
  THEN /\ nodes' = r.nodes
       /\ lastOp' = Returned("updateNode")
  ELSE /\ lastOp' = Thrown("updateNode", r.error)
       /\ UNCHANGED nodes

\* removeNodeAtom (a faulty variant clears the selection whatever it is)
removeNodeClearingSelection(nodeId) ==
  LET filteredNodes == SelectSeq(nodes, LAMBDA node : node.id # nodeId) IN
  IF Len(filteredNodes) = Len(nodes)
  THEN /\ lastOp' = Thrown("removeNode", "not found")
       /\ UNCHANGED << nodes, selectedNodeId >>
  ELSE /\ nodes' = filteredNodes
       /\ selectedNodeId' = NoId
       /\ lastOp' = Returned("removeNode")
removeNode(nodeId) ==
  LET filteredNodes == SelectSeq(nodes, LAMBDA node : node.id # nodeId) IN
  IF Len(filteredNodes) = Len(nodes)
  THEN /\ lastOp' = Thrown("removeNode", "not found")
       /\ UNCHANGED << nodes, selectedNodeId >>
  ELSE /\ nodes' = filteredNodes
       /\ selectedNodeId' = IF selectedNodeId = nodeId THEN NoId ELSE selectedNodeId
       /\ lastOp' = Returned("removeNode")

\* the node list written by setActiveNodeAtom for a known target
\* (a faulty variant deactivates the other nodes of every network)
SetActiveNodeInEveryNetwork(list, nodeId) ==
  [i \in 1..Len(list) |->
     [list[i] EXCEPT
        !.active = (list[i].id = nodeId),
        !.lastUsedAt = IF list[i].id = nodeId THEN now ELSE list[i].lastUsedAt]]
SetActiveNodeIn(list, nodeId) ==
  LET targetNode == list[FindIndex(list, LAMBDA node : node.id = nodeId)] IN
  [i \in 1..Len(list) |->
     [list[i] EXCEPT
        !.active = IF list[i].id = nodeId THEN TRUE
                   ELSE IF list[i].network = targetNode.network THEN FALSE
                   ELSE list[i].active,
        !.lastUsedAt = IF list[i].id = nodeId THEN now ELSE list[i].lastUsedAt]]

\* setActiveNodeAtom
setActiveNode(nodeId) ==
  IF ~(\E i \in 1..Len(nodes) : nodes[i].id = nodeId)
  THEN /\ lastOp' = Thrown("setActiveNode", "not found")
       /\ UNCHANGED << nodes, currentNetwork >>
  ELSE LET targetNode == nodes[FindIndex(nodes, LAMBDA node : node.id = nodeId)] IN
       /\ nodes' = SetActiveNodeIn(nodes, nodeId)
       /\ currentNetwork' = targetNode.network
       /\ lastOp' = Returned("setActiveNode")

\* switchNetworkAtom
\* (a faulty variant of switchNetworkAtom takes the first node of the network
\* whatever its status)
switchNetworkAnyStatus(network) ==
  IF ~validateNetworkType(network)
  THEN /\ lastOp' = Thrown("switchNetwork", "Invalid network type")
       /\ UNCHANGED << nodes, currentNetwork >>
  ELSE LET activeNodeInNetwork ==
             FindIndex(nodes, LAMBDA node : node.network = network /\ node.active)
           availableNode ==
             FindIndex(nodes, LAMBDA node : node.network = network)
       IN
       /\ currentNetwork' = network
       /\ nodes' = IF activeNodeInNetwork = 0 /\ availableNode # 0
                   THEN SetActiveNodeIn(nodes, nodes[availableNode].id)
                   ELSE nodes
       /\ lastOp' = Returned("switchNetwork")
switchNetwork(network) ==
  IF ~validateNetworkType(network)
  THEN /\ lastOp' = Thrown("switchNetwork", "Invalid network type")
       /\ UNCHANGED << nodes, currentNetwork >>
  ELSE LET activeNodeInNetwork ==
             FindIndex(nodes, LAMBDA node : node.network = network /\ node.active)
           availableNode ==
             FindIndex(nodes, LAMBDA node : node.network = network /\ node.status = "online")
       IN
       /\ currentNetwork' = network
       /\ nodes' = IF activeNodeInNetwork = 0 /\ availableNode # 0
                   THEN SetActiveNodeIn(nodes, nodes[availableNode].id)
                   ELSE nodes
       /\ lastOp' = Returned("switchNetwork")

\* initializePresetNodesAtom
initializePresetNodes ==
  IF shouldInitializePresetNodes(nodes)
  THEN LET presetNodes == getPresetNodes
           testnetActiveNode ==
             FindIndex(presetNodes, LAMBDA node : node.network = "TESTNET" /\ node.active)
       IN
       /\ nodes' = presetNodes
       /\ currentNetwork' = IF testnetActiveNode # 0 THEN "TESTNET" ELSE currentNetwork
       /\ lastOp' = Returned("initializePresetNodes")
  ELSE /\ UNCHANGED << nodes, currentNetwork >>
       /\ lastOp' = Returned("initializePresetNodes")

\* mergePresetNodesAtom
mergePresetNodes ==
  LET mergedNodes == mergeWithPresetNodes(nodes) IN
  /\ nodes' = IF Len(mergedNodes) > Len(nodes) THEN mergedNodes ELSE nodes
  /\ lastOp' = Returned("mergePresetNodes")

\* ----- health checks through the store -----

NoCheck == [kind |-> "none", nodeId |-> NoId, startTime |-> 0, snapshot |-> << >>]

RemoveAt(seq, i) == SubSeq(seq, 1, i - 1) \o SubSeq(seq, i + 1, Len(seq))

\* performNodeHealthCheckAtom up to its await
startNodeHealthCheck(nodeId) ==
  IF ~(\E i \in 1..Len(nodes) : nodes[i].id = nodeId)
  THEN /\ lastOp' = Thrown("performNodeHealthCheck", "not found")
       /\ UNCHANGED pendingChecks
  ELSE /\ pendingChecks' = Append(pendingChecks,
                                  [kind |-> "single", nodeId |-> nodeId,
                                   startTime |-> now, snapshot |-> << >>])
       /\ lastOp' = Returned("startNodeHealthCheck")

\* the update parameters performNodeHealthCheckAtom builds from a result
HealthUpdateParams(healthCheck) ==
  [f \in {"id", "has", "status", "responseTime", "lastCheckedAt", "lastError"}
           \cup NodeInfoKeys |->
     CASE f = "id" -> healthCheck.nodeId
       [] f = "has" -> {"status", "responseTime", "lastCheckedAt", "lastError"}
                         \cup (IF healthCheck.hasNodeInfo THEN NodeInfoKeys ELSE {})
       [] f = "status" -> healthCheck.status
       [] f = "responseTime" -> healthCheck.responseTime
       [] f = "lastCheckedAt" -> healthCheck.checkedAt
       [] f = "lastError" -> healthCheck.error
       [] OTHER -> healthCheck.nodeInfo[f]]

\* performNodeHealthCheckAtom after its await: the i-th pending check is
\* answered with outcome.  When updateNode throws, the catch block calls
\* updateNode for the same id, which throws again.
finishNodeHealthCheck(i, outcome) ==
  LET check == pendingChecks[i]
      healthCheck == performNodeHealthCheck(check.nodeId, check.startTime, now, outcome)
      r == updateNodeIn(nodes, HealthUpdateParams(healthCheck))
  IN
  /\ pendingChecks' = RemoveAt(pendingChecks, i)
  /\ IF r.ok
     THEN /\ nodes' = r.nodes
          /\ lastOp' = ReturnedValue("performNodeHealthCheck", outcome, << healthCheck >>)
     ELSE /\ UNCHANGED nodes
          /\ lastOp' = Thrown("performNodeHealthCheck", r.error)

\* performAllHealthChecksAtom up to its await
startAllHealthChecks ==
  /\ pendingChecks' = Append(pendingChecks,
                             [kind |-> "all", nodeId |-> NoId,
                              startTime |-> now, snapshot |-> nodes])
  /\ lastOp' = Returned("startAllHealthChecks")

\* the node performAllHealthChecksAtom writes for a node of its snapshot
ApplyHealthResult(node, result) ==
  [f \in NodeFields |->
     CASE f = "status" -> result.status
       [] f = "responseTime" -> result.responseTime
       [] f = "lastCheckedAt" -> result.checkedAt
       [] f = "lastError" -> result.error
       [] f \in NodeInfoKeys -> IF result.hasNodeInfo THEN result.nodeInfo[f] ELSE node[f]
       [] OTHER -> node[f]]

\* performAllHealthChecksAtom after Promise.all: outcomes[k] is the outcome
\* of the check of the k-th node of the snapshot
finishAllHealthChecks(i, outcomes) ==
  LET check == pendingChecks[i]
      snapshot == check.snapshot
      results == [k \in 1..Len(snapshot) |->
                    performNodeHealthCheck(snapshot[k].id, check.startTime, now, outcomes[k])]
      updatedNodes ==
        [k \in 1..Len(snapshot) |->
           LET r == FindIndex(results, LAMBDA res : res.nodeId = snapshot[k].id) IN
           IF r = 0 THEN snapshot[k] ELSE ApplyHealthResult(snapshot[k], results[r])]
  IN
  /\ pendingChecks' = RemoveAt(pendingChecks, i)
  /\ nodes' = updatedNodes
  /\ lastOp' = ReturnedValue("performAllHealthChecks", outcomes, results)

\* ===== signing orchestrator (app/store/signing.ts) =====

\* number of executeSigning invocations the model keeps track of at a time
MaxInFlight == 2

\* initial value of signingStateAtom
IdleState ==
  [transactionHash |-> << >>, status |-> "idle", cosignature |-> NullCosignature,
   error |-> Null, successMessage |-> Null, lastUpdated |-> UndefinedNumber]

NoSignResult ==
  [success |-> FALSE, cosignature |-> NullCosignature, error |-> Undefined,
   privateKeyString |-> << >>]

\* a slot no invocation of executeSigning occupies
\* (an invocation that has returned leaves its slot so: its closure with
\* params, activeNode and signResult is released)
NoAttempt ==
  [pc |-> "free", transactionHash |-> << >>, privateKey |-> << >>, nodeUrl |-> << >>,
   signResult |-> NoSignResult]

\* isSigningAtom
isSigning == signingState.status = "signing" \/ signingState.status = "announcing"

\* canSignAtom.canSign
canSign ==
  /\ activeAddress # << >>
  /\ activeNode # << >>
  /\ signingState.status # "signing"
  /\ signingState.status # "announcing"

\* resetSigningAtom
resetSigning == signingState' = IdleState

\* clearSigningErrorAtom (a faulty variant clears the message and leaves the status)
clearSigningErrorStatusKept ==
  IF signingState.status = "error"
  THEN signingState' = [signingState EXCEPT !.error = Null, !.lastUpdated = now]
  ELSE UNCHANGED signingState
clearSigningError ==
  IF signingState.status = "error"
  THEN signingState' = [signingState EXCEPT !.status = "idle", !.error = Null,
                                            !.lastUpdated = now]
  ELSE UNCHANGED signingState

\* whether executeSigningAtom goes on to the signing step (a faulty variant checks
\* the active address only)
MayStartSigningAddressOnly == activeAddress # << >>
MayStartSigning == activeAddress # << >> /\ activeNode # << >>

\* the error message executeSigningAtom stores for a failed signing step
SignErrorMessage(signResult) ==
  IF signResult.error \in {Undefined, ""} THEN "signing failed" ELSE signResult.error

\* the cosignature executeSigningAtom stores when the announce failed (a
\* faulty variant stores null, as the catch block does)
CosignatureAfterAnnounceFailureDropped(signResult) == NullCosignature
CosignatureAfterAnnounceFailure(signResult) == signResult.cosignature

\* executeSigningAtom from its invocation up to the first await: the
\* precondition check, set(signing) and the synchronous body of
\* signTransaction.  slot is the slot the invocation occupies.
executeSigning(slot, transactionHash, privateKey, networkType, sdkOutcome) ==
  IF ~MayStartSigning
  THEN /\ signingState' =
            [transactionHash |-> transactionHash, status |-> "error",
             cosignature |-> NullCosignature,
             error |-> "no active address or node",
             successMessage |-> Null, lastUpdated |-> now]
       /\ attempts' = [attempts EXCEPT ![slot] = NoAttempt]
       /\ lastOp' = SigningStep("executeSigning", slot, "preconditionFailed", {})
  ELSE /\ signingState' =
            [transactionHash |-> transactionHash, status |-> "signing",
             cosignature |-> NullCosignature, error |-> Null,
             successMessage |-> Null, lastUpdated |-> now]
       /\ attempts' =
            [attempts EXCEPT ![slot] =
               [pc |-> "signed", transactionHash |-> transactionHash,
                privateKey |-> privateKey,
                nodeUrl |-> IF activeNode = << >> THEN << >> ELSE activeNode[1].url,
                signResult |-> signTransaction(privateKey, transactionHash, networkType,
                                               sdkOutcome)]]
       /\ lastOp' = SigningStep("executeSigning", slot, "started", {"signTransaction"})

\* executeSigningAtom after `await signTransaction(...)`: either the error
\* state, or set(announcing) and the call of announceCosignature up to its
\* await of the PUT request (a faulty variant stores the cosignature only
\* after the announce)
resumeAfterSignCosignatureLate(slot) ==
  LET attempt == attempts[slot]
      signResult == attempt.signResult
  IN
  IF ~signResult.success
  THEN /\ signingState' =
            [transactionHash |-> attempt.transactionHash, status |-> "error",
             cosignature |-> NullCosignature, error |-> SignErrorMessage(signResult),
             successMessage |-> Null, lastUpdated |-> now]
       /\ attempts' = [attempts EXCEPT ![slot] = NoAttempt]
       /\ lastOp' = SigningStep("resumeAfterSign", slot, "signFailed", {})
  ELSE /\ signingState' =
            [transactionHash |-> attempt.transactionHash, status |-> "announcing",
             cosignature |-> NullCosignature, error |-> Null,
             successMessage |-> Null, lastUpdated |-> now]
       /\ attempts' = [attempts EXCEPT ![slot] = [attempt EXCEPT !.pc = "announcing"]]
       /\ lastOp' = SigningStep("resumeAfterSign", slot, "signed", {"announceCosignature"})
resumeAfterSign(slot) ==
  LET attempt == attempts[slot]
      signResult == attempt.signResult
  IN
  IF ~signResult.success
  THEN /\ signingState' =
            [transactionHash |-> attempt.transactionHash, status |-> "error",
             cosignature |-> NullCosignature, error |-> SignErrorMessage(signResult),
             successMessage |-> Null, lastUpdated |-> now]
       /\ attempts' = [attempts EXCEPT ![slot] = NoAttempt]
       /\ lastOp' = SigningStep("resumeAfterSign", slot, "signFailed", {})
  ELSE /\ signingState' =
            [transactionHash |-> attempt.transactionHash, status |-> "announcing",
             cosignature |-> signResult.cosignature, error |-> Null,
             successMessage |-> Null, lastUpdated |-> now]
       /\ attempts' = [attempts EXCEPT ![slot] = [attempt EXCEPT !.pc = "announcing"]]
       /\ lastOp' = SigningStep("resumeAfterSign", slot, "signed", {"announceCosignature"})

\* executeSigningAtom after `await announceCosignature(...)`
resumeAfterAnnounce(slot, outcome) ==
  LET attempt == attempts[slot]
      signResult == attempt.signResult
      announceResult == announceCosignature(attempt.nodeUrl, signResult.cosignature, outcome)
  IN
  /\ signingState' =
       IF ~announceResult.success
       THEN [transactionHash |-> attempt.transactionHash, status |-> "error",
             cosignature |-> CosignatureAfterAnnounceFailure(signResult),
             error |-> IF announceResult.message \in {Undefined, ""}
                       THEN "announce failed" ELSE announceResult.message,
             successMessage |-> Null, lastUpdated |-> now]
       ELSE [transactionHash |-> attempt.transactionHash, status |-> "success",
             cosignature |-> signResult.cosignature, error |-> Null,
             successMessage |-> IF announceResult.message \in {Undefined, ""}
                                THEN "signing and announce completed"
                                ELSE announceResult.message,
             lastUpdated |-> now]
  /\ attempts' = [attempts EXCEPT ![slot] = NoAttempt]
  /\ lastOp' = SigningStep("resumeAfterAnnounce", slot,
                           IF AnnounceParamsError(attempt.nodeUrl, signResult.cosignature)
                                = Undefined
                           THEN outcome ELSE "notSent", {})

\* ===== PrivateKeyModal (app/components/PrivateKeyModal.tsx) =====

\* slots a new invocation of executeSigning can occupy
FreeSlots ==
  {i \in 1..MaxInFlight : attempts[i].pc = "free" /\ i \notin modal.awaiting}

NextSlot == CHOOSE i \in FreeSlots : \A j \in FreeSlots : i <= j

\* handleInputChange: value.replace(/[^0-9A-Fa-f]/g, "").toUpperCase()
SanitizeKeyInput(value) == ToUpperCase(SelectSeq(value, LAMBDA c : c \in HexChars))

\* handleSign up to `await executeSigning(...)`; it returns early when the
\* key is not valid, when canSign is false or when there is no active node
handleSign(sdkOutcome) ==
  /\ modal.isOpen
  /\ validatePrivateKey(modal.privateKey)
  /\ canSign
  /\ activeNode # << >>
  /\ FreeSlots # {}
  /\ executeSigning(NextSlot, modal.transactionHash, modal.privateKey,
                    activeNode[1].network, sdkOutcome)
  /\ modal' = [modal EXCEPT !.awaiting = @ \cup {NextSlot}]

\* handleSign after `await executeSigning(...)`: clearPrivateKey()
handleSignResume(slot) ==
  /\ slot \in modal.awaiting
  /\ attempts[slot].pc = "free"
  /\ modal' = [modal EXCEPT !.privateKey = << >>, !.awaiting = @ \ {slot}]
  /\ lastOp' = Returned("handleSign")

\* the page renders the modal only while showPrivateKeyModal is true, so when
\* onClose runs (cancel button, X button, Escape) the component is unmounted:
\* its privateKey state is discarded and a handleSign still awaiting its
\* executeSigning can no longer reach it.  The effect that calls
\* resetSigning() needs a render with isOpen = false, which the page never
\* makes.
closeModal ==
  /\ modal.isOpen
  /\ modal' = [modal EXCEPT !.isOpen = FALSE, !.privateKey = << >>, !.awaiting = {}]
  /\ lastOp' = Returned("closeModal")

\* handleSignClick of the page: the modal is mounted with an empty key
openModal(transactionHash) ==
  /\ ~modal.isOpen
  /\ modal' = [isOpen |-> TRUE, privateKey |-> << >>,
               transactionHash |-> transactionHash, awaiting |-> {}]
  /\ lastOp' = Returned("openModal")

\* handleInputChange; the input is disabled while isSigning
handleInputChange(value) ==
  /\ modal.isOpen
  /\ ~isSigning
  /\ modal' = [modal EXCEPT !.privateKey = SanitizeKeyInput(value)]
  /\ lastOp' = Returned("handleInputChange")

\* ===== initial state =====

Init ==
  /\ now = 0
  /\ lastOp = Returned("init")
  /\ addresses = << >>
  /\ nodes = << >>
  /\ currentNetwork = "TESTNET"
  /\ selectedNodeId = NoId
  /\ pendingChecks = << >>
  /\ signingState = IdleState
  /\ attempts = [i \in 1..MaxInFlight |-> NoAttempt]
  /\ modal = [isOpen |-> FALSE, privateKey |-> << >>, transactionHash |-> << >>,
              awaiting |-> {}]
  /\ transactionListState = InitialTransactionListState
  /\ pendingFetches = << >>

\* ----- the address registry as a state machine -----


\* the shapes of params offered to addAddress: active left out, true, false
AddAddress ==
  /\ \E address \in AddressInputs, memo \in MemoInputs,
        activeKey \in {<< FALSE, FALSE >>, << TRUE, TRUE >>, << TRUE, FALSE >>} :
       addAddress(address, memo, activeKey[1], activeKey[2])
  /\ UNCHANGED << now, transactionVars, nodeVars, signingVars >>

\* the shapes of params offered to updateAddress
UpdateAddressInputs ==
  {[has |-> {}, memo |-> "", active |-> FALSE, lastUsedAt |-> UndefinedNumber],
   [has |-> {"memo"}, memo |-> "memo", active |-> FALSE, lastUsedAt |-> UndefinedNumber],
   [has |-> {"memo"}, memo |-> "", active |-> FALSE, lastUsedAt |-> UndefinedNumber],
   [has |-> {"active"}, memo |-> "", active |-> TRUE, lastUsedAt |-> UndefinedNumber],
   [has |-> {"active"}, memo |-> "", active |-> FALSE, lastUsedAt |-> UndefinedNumber],
   [has |-> {"memo", "active"}, memo |-> "memo", active |-> TRUE, lastUsedAt |-> UndefinedNumber],
   [has |-> {"lastUsedAt"}, memo |-> "", active |-> FALSE, lastUsedAt |-> 0]}

UpdateAddress ==
  /\ \E address \in AddressKeys, params \in UpdateAddressInputs :
       updateAddress(address, params.has, params.memo, params.active, params.lastUsedAt)
  /\ UNCHANGED << now, transactionVars, nodeVars, signingVars >>

RemoveAddress ==
  /\ \E targetAddress \in AddressKeys : removeAddress(targetAddress)
  /\ UNCHANGED << now, transactionVars, nodeVars, signingVars >>

SetActiveAddress ==
  /\ \E targetAddress \in AddressKeys : setActiveAddress(targetAddress)
  /\ UNCHANGED << now, transactionVars, nodeVars, signingVars >>

NextAddresses ==
  \/ AddAddress
  \/ UpdateAddress
  \/ RemoveAddress
  \/ SetActiveAddress
  \/ Tick

SpecAddresses == Init /\ [][NextAddresses]_vars

\* the same operations with the clock standing still
NextAddressOps ==
  \/ AddAddress
  \/ UpdateAddress
  \/ RemoveAddress
  \/ SetActiveAddress

SpecAddressOps == Init /\ [][NextAddressOps]_vars

\* ----- validation of the addresses typed in -----

RECURSIVE Hyphenate(_)
\* s with a hyphen after each group of 6 characters
Hyphenate(s) ==
  IF Len(s) <= 6 THEN s
  ELSE SubSeq(s, 1, 6) \o << "-" >> \o Hyphenate(SubSeq(s, 7, Len(s)))

\* s with its first group of 6 characters in lower case
LowerCaseFirstGroup(s) == ToLowerCase(SubSeq(s, 1, 6)) \o SubSeq(s, 7, Len(s))

AddrMixed == Rep("A", 37) \o << "B", "7" >>
ValidAddresses == {AddrA, AddrB, AddrMixed}

\* base in another letter case and / or with the hyphens of the 45-character form
VariantsOf(base) ==
  LET cased == {base, ToLowerCase(base), LowerCaseFirstGroup(base)} IN
  cased \cup {Hyphenate(c) : c \in cased}

AddrLong == Rep("A", 40)
AddrHyphensFirst == Rep("-", 6) \o AddrA
AddrDotlessI == Rep("A", 38) \o << "dotless i" >>

ValidationInputs ==
  UNION {VariantsOf(base) : base \in ValidAddresses}
    \cup {AddrShort, AddrLong, AddrBadChar, AddrAHyphen, AddrHyphensFirst, AddrDotlessI,
          Hyphenate(AddrBadChar), << >>}

ValidateSymbolAddress ==
  /\ \E address \in ValidationInputs :
       lastOp' = ReturnedValue("validateSymbolAddress", address,
                               << validateSymbolAddress(address) >>)
  /\ UNCHANGED << now, transactionVars, addressVars, nodeVars, signingVars >>

ValidateFormattedAddress ==
  /\ \E address \in ValidationInputs :
       lastOp' = ReturnedValue("validateFormattedAddress", address,
                               << [isValid |-> validateFormattedAddress(address)] >>)
  /\ UNCHANGED << now, transactionVars, addressVars, nodeVars, signingVars >>

AddTypedAddress ==
  /\ \E address \in ValidationInputs : addAddress(address, "", FALSE, FALSE)
  /\ UNCHANGED << now, transactionVars, nodeVars, signingVars >>

NextValidateAddress ==
  \/ ValidateSymbolAddress
  \/ ValidateFormattedAddress
  \/ AddTypedAddress
  \/ RemoveAddress

SpecValidateAddress == Init /\ [][NextValidateAddress]_vars

\* ----- the node registry as a state machine -----

\* number of health checks awaiting their response at a time
MaxPendingChecks == 1

UrlN == << "https://", "n", ":3001" >>
UrlNUpperSlash == << "https://", "N", ":3001", "/" >>
UrlM == << "https://", "m", ":3001" >>
UrlHttp == << "http://", "n", ":3001" >>
UrlBadPort == << "https://", "n", ":8080" >>
UrlLocalhost == << "https://", "localhost", ":3001" >>
UrlNoScheme == << "n" >>

\* the (url, network) pairs offered to addNode
AddNodeInputs ==
  {<< UrlN, "TESTNET" >>, << UrlNUpperSlash, "TESTNET" >>, << UrlM, "TESTNET" >>,
   << UrlHttp, "TESTNET" >>}

\* the ids offered to the operations that take a node id
NodeIdInputs ==
  {generateNodeId(UrlN, "TESTNET").id, generateNodeId(UrlM, "TESTNET").id}

\* the shapes of params offered to updateNode, without the id
UpdateNodeInputs ==
  {[has |-> {"active"}, active |-> TRUE],
   [has |-> {"active"}, active |-> FALSE],
   [has |-> {"network"}, network |-> "MAINNET"],
   [has |-> {"url"}, url |-> UrlHttp]}

\* params with the id key added
WithId(params, id) ==
  [f \in (DOMAIN params) \cup {"id"} |-> IF f = "id" THEN id ELSE params[f]]

\* the outcomes of GET /node/info the registry is driven with
RegistryHealthOutcomes == {"ok"}

AddNode ==
  /\ \E input \in AddNodeInputs, activeKey \in {<< FALSE, FALSE >>, << TRUE, TRUE >>} :
       addNode(input[1], input[2], activeKey[1], activeKey[2], FALSE, "")
  /\ UNCHANGED << now, transactionVars, addressVars, signingVars, currentNetwork, selectedNodeId, pendingChecks >>

UpdateNode ==
  /\ \E id \in NodeIdInputs, params \in UpdateNodeInputs : updateNode(WithId(params, id))
  /\ UNCHANGED << now, transactionVars, addressVars, signingVars, currentNetwork, selectedNodeId, pendingChecks >>

RemoveNode ==
  /\ \E id \in NodeIdInputs : removeNode(id)
  /\ UNCHANGED << now, transactionVars, addressVars, signingVars, currentNetwork, pendingChecks >>

SetActiveNode ==
  /\ \E id \in NodeIdInputs : setActiveNode(id)
  /\ UNCHANGED << now, transactionVars, addressVars, signingVars, selectedNodeId, pendingChecks >>

SwitchNetwork ==
  /\ \E network \in NetworkTypes \cup {"DEVNET"} : switchNetwork(network)
  /\ UNCHANGED << now, transactionVars, addressVars, signingVars, selectedNodeId, pendingChecks >>

InitializePresetNodes ==
  /\ initializePresetNodes
  /\ UNCHANGED << now, transactionVars, addressVars, signingVars, selectedNodeId, pendingChecks >>

MergePresetNodes ==
  /\ mergePresetNodes
  /\ UNCHANGED << now, transactionVars, addressVars, signingVars, currentNetwork, selectedNodeId, pendingChecks >>

StartNodeHealthCheck ==
  /\ Len(pendingChecks) < MaxPendingChecks
  /\ \E id \in NodeIdInputs : startNodeHealthCheck(id)
  /\ UNCHANGED << now, transactionVars, addressVars, signingVars, nodes, currentNetwork, selectedNodeId >>

FinishNodeHealthCheck ==
  /\ \E i \in 1..Len(pendingChecks), outcome \in RegistryHealthOutcomes :
       /\ pendingChecks[i].kind = "single"
       /\ finishNodeHealthCheck(i, outcome)
  /\ UNCHANGED << now, transactionVars, addressVars, signingVars, currentNetwork, selectedNodeId >>

StartAllHealthChecks ==
  /\ Len(pendingChecks) < MaxPendingChecks
  /\ startAllHealthChecks
  /\ UNCHANGED << now, transactionVars, addressVars, signingVars, nodes, currentNetwork, selectedNodeId >>

FinishAllHealthChecks ==
  /\ \E i \in 1..Len(pendingChecks) :
       /\ pendingChecks[i].kind = "all"
       /\ \E outcomes \in [1..Len(pendingChecks[i].snapshot) -> RegistryHealthOutcomes] :
            finishAllHealthChecks(i, outcomes)
  /\ UNCHANGED << now, transactionVars, addressVars, signingVars, currentNetwork, selectedNodeId >>

NextNodes ==
  \/ AddNode
  \/ UpdateNode
  \/ RemoveNode
  \/ SetActiveNode
  \/ SwitchNetwork
  \/ InitializePresetNodes
  \/ MergePresetNodes
  \/ StartNodeHealthCheck
  \/ FinishNodeHealthCheck

SpecNodes == Init /\ [][NextNodes]_vars

\* ----- the preset nodes next to nodes added by hand -----

\* the (url, network) pairs of the built-in list offered to addNode
PresetUrlInputs ==
  {<< presetServers.TESTNET[1], "TESTNET" >>, << presetServers.MAINNET[1], "MAINNET" >>}

AddPresetUrlNode ==
  /\ \E input \in PresetUrlInputs, activeKey \in {<< FALSE, FALSE >>, << TRUE, TRUE >>} :
       addNode(input[1], input[2], activeKey[1], activeKey[2], FALSE, "")
  /\ UNCHANGED << now, transactionVars, addressVars, signingVars, currentNetwork, selectedNodeId, pendingChecks >>

NextPresets ==
  \/ AddNode
  \/ AddPresetUrlNode
  \/ InitializePresetNodes
  \/ MergePresetNodes
  \/ Tick

SpecPresets == Init /\ [][NextPresets]_vars

\* ===== transaction list (app/utils/symbol-api.ts, app/store/transactions.ts) =====

\* ----- deadlines -----

\* A JavaScript number that holds an integer is a sequence of decimal digit
\* values, most significant first, zero being << 0 >>: the instants involved
\* do not fit the integers of the model checker.
DigitChars == << "0", "1", "2", "3", "4", "5", "6", "7", "8", "9" >>

DigitValue(c) == CHOOSE d \in 0..9 : DigitChars[d + 1] = c

IsDigitString(str) ==
  /\ str # << >>
  /\ \A i \in 1..Len(str) : \E d \in 0..9 : DigitChars[d + 1] = str[i]

RECURSIVE StripLeadingZeros(_)
StripLeadingZeros(digits) ==
  IF Len(digits) > 1 /\ Head(digits) = 0 THEN StripLeadingZeros(Tail(digits)) ELSE digits

Reverse(seq) == [i \in 1..Len(seq) |-> seq[Len(seq) + 1 - i]]

\* sum of two numbers given least significant digit first
RECURSIVE AddFromLeast(_, _, _)
AddFromLeast(a, b, carry) ==
  IF a = << >> /\ b = << >>
  THEN IF carry = 0 THEN << >> ELSE << carry >>
  ELSE LET x == IF a = << >> THEN 0 ELSE Head(a)
           y == IF b = << >> THEN 0 ELSE Head(b)
           sum == x + y + carry
       IN << sum % 10 >> \o AddFromLeast(IF a = << >> THEN a ELSE Tail(a),
                                         IF b = << >> THEN b ELSE Tail(b),
                                         sum \div 10)

Plus(a, b) == StripLeadingZeros(Reverse(AddFromLeast(Reverse(a), Reverse(b), 0)))

RECURSIVE DigitsGreater(_, _)
DigitsGreater(a, b) ==
  IF a = << >> THEN FALSE
  ELSE IF Head(a) # Head(b) THEN Head(a) > Head(b)
  ELSE DigitsGreater(Tail(a), Tail(b))

GreaterThan(a, b) ==
  IF Len(a) # Len(b) THEN Len(a) > Len(b) ELSE DigitsGreater(a, b)

NaN == [nan |-> TRUE, digits |-> << >>]

\* Number(str) for the strings a deadline is drawn from: the empty string
\* is 0, a string of decimal digits is its value, a word is NaN. A value
\* above 2^53 is rounded by Number; the sum parseDeadline forms with it is
\* above the range of Date whatever the rounding.
Number(str) ==
  IF str = << >> THEN [nan |-> FALSE, digits |-> << 0 >>]
  ELSE IF IsDigitString(str)
  THEN [nan |-> FALSE,
        digits |-> StripLeadingZeros([i \in 1..Len(str) |-> DigitValue(str[i])])]
  ELSE NaN

\* 1615852585000
nemesisTimestamp == << 1, 6, 1, 5, 8, 5, 2, 5, 8, 5, 0, 0, 0 >>

\* the largest time value of a Date, 8.64e15 ms; new Date(t) is an invalid
\* date for a larger t and for NaN
MaxTimeValue == << 8, 6, 4 >> \o [i \in 1..13 |-> 0]

InvalidDate == [valid |-> FALSE, time |-> << >>]

parseDeadline(deadlineStr) ==
  LET deadline == Number(deadlineStr) IN
  IF deadline.nan THEN InvalidDate
  ELSE LET time == Plus(nemesisTimestamp, deadline.digits) IN
       IF GreaterThan(time, MaxTimeValue) THEN InvalidDate
       ELSE [valid |-> TRUE, time |-> time]

\* an item of PartialTransactionsResponseDTO.data
TransactionItem(id, deadline, cosigners) ==
  [id |-> id, hash |-> "hash", signerPublicKey |-> "signer", maxFee |-> "0",
   deadline |-> deadline, cosignatures |-> cosigners]

convertToDisplayTransactions(data) ==
  [i \in 1..Len(data) |->
     [id |-> data[i].id, hash |-> data[i].hash,
      signerPublicKey |-> data[i].signerPublicKey, maxFee |-> data[i].maxFee,
      deadline |-> data[i].deadline,
      cosignatureCount |-> Len(data[i].cosignatures),
      cosignerPublicKeys |-> data[i].cosignatures,
      createdAt |-> parseDeadline(data[i].deadline)]]

\* ----- what a node answers to GET /transactions/partial -----

\* kind: "ok" (2xx with a body that passes validateResponse), "invalidBody"
\* (2xx, JSON of another form), "invalidJson" (2xx, body that is not JSON),
\* "http" (status outside 2xx), "timeout" (no answer within API_TIMEOUT),
\* "networkError" (the connection fails; message is the text of the error
\* the platform raises)
Response(kind, status, body, message) ==
  [kind |-> kind, status |-> status, body |-> body, message |-> message]

OkResponse(body) == Response("ok", "200", body, "")
HttpResponse(status) == Response("http", status, << >>, "")
TimeoutResponse == Response("timeout", "", << >>, "")
NetworkFailure(message) == Response("networkError", "", << >>, message)

createApiError(message, code) == [code |-> code, message |-> message]

ApiFailure(message, code) ==
  [success |-> FALSE, error |-> createApiError(message, code), data |-> << >>]

ApiSuccess(data) ==
  [success |-> TRUE, error |-> createApiError(<< >>, ""), data |-> data]

\* the messages fetch raises on a failed connection contain "fetch" on some
\* platforms ("Failed to fetch") and not on others ("Load failed")
MessageIncludesFetch(message) == message = "Failed to fetch"

\* retry.limit and retry.statusCodes of ky when ky.create gets no retry option
kyRetryLimit == 2
kyRetryStatusCodes == {"408", "413", "429", "500", "502", "503", "504"}

\* ky repeats a GET after a failed connection and after the status codes
\* above, not after a timeout
kyRetries(response) ==
  \/ response.kind = "networkError"
  \/ response.kind = "http" /\ response.status \in kyRetryStatusCodes

\* api.get(...): responses[k] answers the k-th request ky sends (a faulty
\* variant takes the first answer as the last one)
kyGetOnce(responses) == [response |-> responses[1], requests |-> 1]
RECURSIVE kyGetFrom(_, _)
kyGetFrom(responses, retryCount) ==
  LET response == responses[retryCount + 1] IN
  IF kyRetries(response) /\ retryCount < kyRetryLimit
  THEN kyGetFrom(responses, retryCount + 1)
  ELSE [response |-> response, requests |-> retryCount + 1]

kyGet(responses) == kyGetFrom(responses, 0)

\* A 2xx answer given by its parsed JSON (kind "json"): body.kind is
\* "object", "null" or "string"; body.data.kind is "array", "missing" or
\* "object"; body.pagination.kind is "object", "missing" or "null", its
\* pageNumber and pageSize are tagged values; an element of body.data.items
\* is [missing |-> the keys it lacks, item |-> what it holds].
JsonBody(kind, data, pagination) == [kind |-> kind, data |-> data, pagination |-> pagination]

JsonResponse(body) == Response("json", "200", body, "")

validateResponse(body) ==
  IF body.kind # "object" THEN FALSE
  ELSE IF body.data.kind # "array" \/ body.pagination.kind \in {"missing", "null"} THEN FALSE
  ELSE IF \/ body.pagination.pageNumber.type # "number"
          \/ body.pagination.pageSize.type # "number"
  THEN FALSE
  ELSE TRUE

\* item.meta.hash, item.transaction.* and item.transaction.cosignatures.length
\* throw a TypeError when meta, transaction or cosignatures is not there
ConversionThrows(items) ==
  \E i \in 1..Len(items) : items[i].missing \cap {"meta", "transaction", "cosignatures"} # {}

\* validateResponse and convertToDisplayTransactions applied to a parsed
\* body; onTypeError is the result of the catch block the TypeError reaches
ClassifyJsonBody(body, onTypeError) ==
  IF ~validateResponse(body)
  THEN ApiFailure(<< "invalid response format" >>, "INVALID_RESPONSE")
  ELSE IF ConversionThrows(body.data.items) THEN onTypeError
  ELSE ApiSuccess(convertToDisplayTransactions(
                    [i \in 1..Len(body.data.items) |-> body.data.items[i].item]))

\* the result of fetchPartialTransactions once the request is answered
ClassifyKyResponse(response) ==
  CASE response.kind = "ok" -> ApiSuccess(convertToDisplayTransactions(response.body))
    [] response.kind = "json" ->
         ClassifyJsonBody(response.body,
                          ApiFailure(<< "network connection failed" >>, "NETWORK_ERROR"))
    [] response.kind = "invalidBody" -> ApiFailure(<< "invalid response format" >>, "INVALID_RESPONSE")
    [] response.kind = "http" /\ response.status = "404" ->
         ApiFailure(<< "resource not found" >>, "NOT_FOUND")
    [] response.kind = "http" /\ response.status = "409" ->
         ApiFailure(<< "invalid parameters" >>, "INVALID_ARGUMENT")
    [] response.kind = "http" /\ response.status \notin {"404", "409"} ->
         ApiFailure(<< "server error: ", response.status >>, "SERVER_ERROR")
    [] response.kind = "timeout" -> ApiFailure(<< "request timed out" >>, "TIMEOUT")
    [] OTHER -> ApiFailure(<< "network connection failed" >>, "NETWORK_ERROR")

\* fetchPartialTransactions of symbol-api.ts: the result and the number of
\* requests sent
fetchPartialTransactions(params, responses) ==
  IF params.nodeUrl = << >> \/ params.address = << >>
  THEN [result |-> ApiFailure(<< "node url and address required" >>, "INVALID_PARAMS"),
        requests |-> 0]
  ELSE LET answered == kyGet(responses) IN
       [result |-> ClassifyKyResponse(answered.response), requests |-> answered.requests]

\* the version of fetchPartialTransactions that calls fetch with an AbortController
fetchPartialTransactionsWithFetch(params, response) ==
  IF params.nodeUrl = << >> \/ params.address = << >>
  THEN [result |-> ApiFailure(<< "node url and address required" >>, "INVALID_PARAMS"),
        requests |-> 0]
  ELSE [requests |-> 1,
        result |->
          CASE response.kind = "ok" -> ApiSuccess(convertToDisplayTransactions(response.body))
            [] response.kind = "json" ->
                 ClassifyJsonBody(response.body,
                                  ApiFailure(<< "Cannot read properties of undefined" >>,
                                             "UNKNOWN_ERROR"))
            [] response.kind = "invalidBody" ->
                 ApiFailure(<< "invalid response format" >>, "INVALID_RESPONSE")
            [] response.kind = "http" /\ response.status = "404" ->
                 ApiFailure(<< "resource not found" >>, "NOT_FOUND")
            [] response.kind = "http" /\ response.status = "409" ->
                 ApiFailure(<< "invalid parameters" >>, "INVALID_ARGUMENT")
            [] response.kind = "http" /\ response.status \notin {"404", "409"} ->
                 ApiFailure(<< "server error: ", response.status >>, "SERVER_ERROR")
            [] response.kind = "timeout" -> ApiFailure(<< "request timed out" >>, "TIMEOUT")
            [] response.kind = "networkError" /\ MessageIncludesFetch(response.message) ->
                 ApiFailure(<< "network connection failed" >>, "NETWORK_ERROR")
            [] response.kind = "networkError" /\ ~MessageIncludesFetch(response.message) ->
                 ApiFailure(<< response.message >>, "UNKNOWN_ERROR")
            [] OTHER -> ApiFailure(<< "Unexpected token" >>, "UNKNOWN_ERROR")]

\* ----- the store -----

\* fetchParamsAtom, as a sequence of zero or one params
fetchParams ==
  IF activeAddress = << >> \/ activeNode = << >> THEN << >>
  ELSE << [nodeUrl |-> activeNode[1].url, address |-> activeAddress] >>

MaxPendingFetches == 2

\* fetchTransactionsAtom up to its await (a faulty variant starts loading
\* before it looks at the params)
startFetchTransactionsLoadingFirst ==
  IF fetchParams = << >>
  THEN /\ transactionListState' =
            [transactionListState EXCEPT !.error = << "active address and node required" >>,
                                         !.loading = TRUE]
       /\ UNCHANGED pendingFetches
       /\ lastOp' = SigningStep("fetchTransactions", 0, "missing", 0)
  ELSE /\ Len(pendingFetches) < MaxPendingFetches
       /\ transactionListState' =
            [transactionListState EXCEPT !.loading = TRUE, !.error = << >>]
       /\ pendingFetches' = Append(pendingFetches, fetchParams[1])
       /\ lastOp' = SigningStep("fetchTransactions", 0, "started", 0)
startFetchTransactions ==
  IF fetchParams = << >>
  THEN /\ transactionListState' =
            [transactionListState EXCEPT !.error = << "active address and node required" >>,
                                         !.loading = FALSE]
       /\ UNCHANGED pendingFetches
       /\ lastOp' = SigningStep("fetchTransactions", 0, "missing", 0)
  ELSE /\ Len(pendingFetches) < MaxPendingFetches
       /\ transactionListState' =
            [transactionListState EXCEPT !.loading = TRUE, !.error = << >>]
       /\ pendingFetches' = Append(pendingFetches, fetchParams[1])
       /\ lastOp' = SigningStep("fetchTransactions", 0, "started", 0)

\* the state fetchTransactionsAtom sets when the fetch failed or threw (a
\* faulty variant writes a fresh state with the message, as the branch of a
\* successful fetch does with its data)
AfterFailedFetchListDropped(prev, message) ==
  [transactions |-> << >>, loading |-> FALSE, error |-> message, lastUpdated |-> now]
AfterFailedFetch(prev, message) ==
  [prev EXCEPT !.loading = FALSE, !.error = message]

\* fetchTransactionsAtom from its await on: pendingFetches[slot] is answered
\* (a faulty variant leaves loading as it is when the fetch failed)
finishFetchTransactionsLoadingKept(slot, responses) ==
  LET fetched == fetchPartialTransactions(pendingFetches[slot], responses)
      result == fetched.result
  IN
  /\ transactionListState' =
       IF result.success
       THEN [transactions |-> result.data, loading |-> FALSE, error |-> << >>,
             lastUpdated |-> now]
       ELSE [transactionListState EXCEPT !.error = result.error.message]
  /\ pendingFetches' = RemoveAt(pendingFetches, slot)
  /\ lastOp' = SigningStep("fetchTransactions", slot,
                           IF result.success THEN "success" ELSE result.error.code,
                           fetched.requests)
finishFetchTransactions(slot, responses) ==
  LET fetched == fetchPartialTransactions(pendingFetches[slot], responses)
      result == fetched.result
  IN
  /\ transactionListState' =
       IF result.success
       THEN [transactions |-> result.data, loading |-> FALSE, error |-> << >>,
             lastUpdated |-> now]
       ELSE AfterFailedFetch(transactionListState, result.error.message)
  /\ pendingFetches' = RemoveAt(pendingFetches, slot)
  /\ lastOp' = SigningStep("fetchTransactions", slot,
                           IF result.success THEN "success" ELSE result.error.code,
                           fetched.requests)

\* ----- the transaction list as a state machine -----

DeadlineLast == << "8", "6", "3", "8", "3", "8", "4", "1", "4", "7", "4", "1", "5", "0", "0", "0" >>
DeadlinePastLast == << "8", "6", "3", "8", "3", "8", "4", "1", "4", "7", "4", "1", "5", "0", "0", "1" >>
DeadlineUint64Max ==
  << "1", "8", "4", "4", "6", "7", "4", "4", "0", "7", "3", "7", "0", "9", "5", "5", "1", "6",
     "1", "5" >>
DeadlineTwoHours == << "7", "2", "0", "0", "0", "0", "0" >>

DeadlineInputs ==
  {<< "0" >>, << "1" >>, << "9", "9", "9" >>, << "0", "7" >>, DeadlineTwoHours, DeadlineLast,
   DeadlinePastLast, DeadlineUint64Max, << "a", "b", "c" >>, << >>}

ResponseBodies ==
  {<< >>, << TransactionItem("1", DeadlineTwoHours, << "cosigner" >>),
            TransactionItem("2", << "1" >>, << >>) >>}
    \cup {<< TransactionItem("1", deadline, << >>) >> : deadline \in DeadlineInputs}

Responses ==
  {OkResponse(body) : body \in ResponseBodies}
    \cup {HttpResponse(status) : status \in {"400", "404", "409", "500", "503"}}
    \cup {Response("invalidBody", "200", << >>, ""), Response("invalidJson", "200", << >>, ""),
          TimeoutResponse, NetworkFailure("Failed to fetch"), NetworkFailure("Load failed")}

LaterResponses ==
  {OkResponse(<< >>), HttpResponse("404"), HttpResponse("503"), TimeoutResponse,
   NetworkFailure("Failed to fetch")}

\* the answers to the requests of one api.get, as many as ky sends
ResponseSequences ==
  {<< r >> : r \in {x \in Responses : ~kyRetries(x)}}
    \cup {<< r1, r2 >> : r1 \in {x \in Responses : kyRetries(x)},
                         r2 \in {x \in LaterResponses : ~kyRetries(x)}}
    \cup {<< r1, r2, r3 >> : r1 \in {x \in Responses : kyRetries(x)},
                             r2 \in {x \in LaterResponses : kyRetries(x)},
                             r3 \in LaterResponses}

FetchParamsInputs ==
  {[nodeUrl |-> UrlN, address |-> AddrA], [nodeUrl |-> << >>, address |-> AddrA],
   [nodeUrl |-> UrlN, address |-> << >>]}

FetchPartialTransactions ==
  /\ \E params \in FetchParamsInputs, responses \in ResponseSequences :
       lastOp' = ReturnedValue("fetchPartialTransactions",
                               [params |-> params, responses |-> responses],
                               << fetchPartialTransactions(params, responses) >>)
  /\ UNCHANGED << now, transactionVars, addressVars, nodeVars, signingVars >>

FetchPartialTransactionsWithFetch ==
  /\ \E params \in FetchParamsInputs, response \in Responses :
       lastOp' = ReturnedValue("fetchPartialTransactionsWithFetch",
                               [params |-> params, responses |-> << response >>],
                               << fetchPartialTransactionsWithFetch(params, response) >>)
  /\ UNCHANGED << now, transactionVars, addressVars, nodeVars, signingVars >>

NextFetchApi ==
  \/ FetchPartialTransactions
  \/ FetchPartialTransactionsWithFetch
  \/ Tick

SpecFetchApi == Init /\ [][NextFetchApi]_vars

\* ----- answers with a body of another form -----

UndefinedDeadline == << Undefined >>

\* an item that lacks the keys of missing
ItemWithout(missing) ==
  [missing |-> missing,
   item |-> TransactionItem(IF "id" \in missing THEN Undefined ELSE "1",
                            IF "deadline" \in missing THEN UndefinedDeadline
                            ELSE DeadlineTwoHours,
                            << >>)]

JsonItemLists ==
  {<< >>, << ItemWithout({}) >>, << ItemWithout({"meta"}) >>, << ItemWithout({"transaction"}) >>,
   << ItemWithout({"cosignatures"}) >>, << ItemWithout({"deadline"}) >>,
   << ItemWithout({"id"}) >>, << ItemWithout({}), ItemWithout({"transaction"}) >>}

JsonData ==
  {[kind |-> "array", items |-> items] : items \in JsonItemLists}
    \cup {[kind |-> "missing", items |-> << >>], [kind |-> "object", items |-> << >>]}

JsonPaginations ==
  {[kind |-> "object", pageNumber |-> NumberValue(1), pageSize |-> NumberValue(100)],
   [kind |-> "object", pageNumber |-> StringValue("1"), pageSize |-> NumberValue(100)],
   [kind |-> "object", pageNumber |-> NumberValue(1), pageSize |-> UndefinedValue],
   [kind |-> "missing", pageNumber |-> UndefinedValue, pageSize |-> UndefinedValue],
   [kind |-> "null", pageNumber |-> UndefinedValue, pageSize |-> UndefinedValue]}

JsonBodies ==
  {JsonBody("object", data, pagination) : data \in JsonData, pagination \in JsonPaginations}
    \cup {JsonBody(kind, [kind |-> "missing", items |-> << >>],
                    [kind |-> "missing", pageNumber |-> UndefinedValue,
                     pageSize |-> UndefinedValue]) : kind \in {"null", "string"}}

FetchParamsOfN == [nodeUrl |-> UrlN, address |-> AddrA]

FetchJsonBody ==
  /\ \E body \in JsonBodies :
       lastOp' = ReturnedValue("fetchPartialTransactions", body,
                               << fetchPartialTransactions(FetchParamsOfN,
                                                           << JsonResponse(body) >>) >>)
  /\ UNCHANGED << now, transactionVars, addressVars, nodeVars, signingVars >>

FetchJsonBodyWithFetch ==
  /\ \E body \in JsonBodies :
       lastOp' = ReturnedValue("fetchPartialTransactionsWithFetch", body,
                               << fetchPartialTransactionsWithFetch(FetchParamsOfN,
                                                                    JsonResponse(body)) >>)
  /\ UNCHANGED << now, transactionVars, addressVars, nodeVars, signingVars >>

NextFetchJson ==
  \/ FetchJsonBody
  \/ FetchJsonBodyWithFetch
  \/ Tick

SpecFetchJson == Init /\ [][NextFetchJson]_vars

\* the answers offered to a fetch started through the store
StoreResponseSequences ==
  {<< OkResponse(<< >>) >>,
   << OkResponse(<< TransactionItem("1", DeadlineTwoHours, << >>) >>) >>,
   << HttpResponse("404") >>, << TimeoutResponse >>,
   << HttpResponse("503"), OkResponse(<< >>) >>,
   << HttpResponse("503"), HttpResponse("503"), HttpResponse("503") >>,
   << NetworkFailure("Failed to fetch"), TimeoutResponse >>}

AddActiveAddress ==
  /\ addAddress(AddrA, "", TRUE, TRUE)
  /\ UNCHANGED << now, transactionVars, nodeVars, signingVars >>

AddActiveNode ==
  /\ addNode(UrlN, "TESTNET", TRUE, TRUE, FALSE, "")
  /\ UNCHANGED << now, transactionVars, addressVars, signingVars, currentNetwork,
                  selectedNodeId, pendingChecks >>

StartFetchTransactions ==
  /\ startFetchTransactions
  /\ UNCHANGED << now, addressVars, nodeVars, signingVars >>

FinishFetchTransactions ==
  /\ \E slot \in 1..Len(pendingFetches), responses \in StoreResponseSequences :
       finishFetchTransactions(slot, responses)
  /\ UNCHANGED << now, addressVars, nodeVars, signingVars >>

\* fetchPartialTransactions called with params that lack the node url or the address
FetchPartialTransactionsWithoutParams ==
  /\ \E params \in {p \in FetchParamsInputs : p.nodeUrl = << >> \/ p.address = << >>},
        responses \in StoreResponseSequences :
       lastOp' = ReturnedValue("fetchPartialTransactions",
                               [params |-> params, responses |-> responses],
                               << fetchPartialTransactions(params, responses) >>)
  /\ UNCHANGED << now, transactionVars, addressVars, nodeVars, signingVars >>

NextTransactions ==
  \/ FetchPartialTransactionsWithoutParams
  \/ AddActiveAddress
  \/ RemoveAddress
  \/ AddActiveNode
  \/ RemoveNode
  \/ StartFetchTransactions
  \/ FinishFetchTransactions
  \/ Tick

SpecTransactions == Init /\ [][NextTransactions]_vars

\* ----- the URLs typed in for a node -----

UrlNSlash2 == << "https://", "n", ":3001", "/", "/" >>
UrlNSlash3 == << "https://", "N", ":3001", "/", "/", "/" >>
UrlNoPort == << "https://", "n" >>
UrlPort3000 == << "https://", "m", ":3000" >>
UrlLoopback == << "https://", "127.0.0.1", ":3001" >>

UrlInputs ==
  {UrlN, UrlNUpperSlash, UrlNSlash2, UrlNSlash3, UrlNoPort, UrlPort3000, UrlM,
   UrlHttp, UrlBadPort, UrlLocalhost, UrlLoopback, UrlNoScheme, << >>}

\* the urls offered to addNode, all for TESTNET
AddUrlInputs ==
  {UrlN, UrlNUpperSlash, UrlNSlash2, UrlNSlash3, UrlHttp, UrlBadPort, UrlLocalhost,
   UrlLoopback, UrlNoScheme, << >>}

\* the urls offered to updateNode for the node of UrlN
UpdateUrlInputs == {UrlPort3000, UrlHttp, UrlBadPort, UrlLocalhost, UrlNoScheme}

ValidateNodeUrl ==
  /\ \E url \in UrlInputs :
       lastOp' = ReturnedValue("validateNodeUrl", url, << validateNodeUrl(url) >>)
  /\ UNCHANGED << now, transactionVars, addressVars, nodeVars, signingVars >>

NormalizeNodeUrl ==
  /\ \E url \in UrlInputs :
       lastOp' = ReturnedValue("normalizeNodeUrl", url, normalizeNodeUrl(url))
  /\ UNCHANGED << now, transactionVars, addressVars, nodeVars, signingVars >>

AddNodeWithUrl ==
  /\ \E url \in AddUrlInputs : addNode(url, "TESTNET", FALSE, FALSE, FALSE, "")
  /\ UNCHANGED << now, transactionVars, addressVars, signingVars, currentNetwork, selectedNodeId, pendingChecks >>

UpdateNodeUrl ==
  /\ \E url \in UpdateUrlInputs :
       updateNode(WithId([has |-> {"url"}, url |-> url], generateNodeId(UrlN, "TESTNET").id))
  /\ UNCHANGED << now, transactionVars, addressVars, signingVars, currentNetwork, selectedNodeId, pendingChecks >>

NextNodeUrls ==
  \/ ValidateNodeUrl
  \/ NormalizeNodeUrl
  \/ AddNodeWithUrl
  \/ UpdateNodeUrl
  \/ RemoveNode

SpecNodeUrls == Init /\ [][NextNodeUrls]_vars

\* ----- quality and sort order of the nodes -----

\* the response times offered to evaluateNodeQuality, in ms
ResponseTimeInputs ==
  {NumberValue(t) : t \in {0 - 1, 0, 50, 99, 100, 300, 499, 500, 1000, 1999, 2000, 3000}}
    \cup {UndefinedValue}

NodeStatuses == {"online", "offline", "unknown"}

EvaluateNodeQuality ==
  /\ \E responseTime \in ResponseTimeInputs :
       lastOp' = ReturnedValue("evaluateNodeQuality", responseTime,
                               << [quality |-> evaluateNodeQuality(responseTime),
                                   priority |-> getNodeQualityPriority(responseTime)] >>)
  /\ UNCHANGED << now, transactionVars, addressVars, nodeVars, signingVars >>

GetNodeStatusPriority ==
  /\ \E status \in NodeStatuses :
       lastOp' = ReturnedValue("getNodeStatusPriority", status,
                               << [priority |-> getNodeStatusPriority(status)] >>)
  /\ UNCHANGED << now, transactionVars, addressVars, nodeVars, signingVars >>

NextNodeQuality ==
  \/ EvaluateNodeQuality
  \/ GetNodeStatusPriority
  \/ AddNode
  \/ Tick

SpecNodeQuality == Init /\ [][NextNodeQuality]_vars

\* ----- detection of the network of the nodes to add -----

\* the values of networkIdentifier a 2xx body is given
NetworkIdentifierInputs ==
  {NumberValue(n) : n \in {0, 103, 104, 105, 151, 152, 153}}
    \cup {StringValue("104"), StringValue("152"), UndefinedValue}

\* (outcome, networkIdentifier): a body is there in outcome ok only
DetectInputs ==
  {<< "ok", networkIdentifier >> : networkIdentifier \in NetworkIdentifierInputs}
    \cup {<< outcome, UndefinedValue >> : outcome \in HealthOutcomes \ {"ok"}}

DetectNodeNetwork ==
  /\ \E input \in DetectInputs :
       lastOp' = ReturnedValue("detectNodeNetwork", input,
                               << detectNodeNetwork(input[1], input[2]) >>)
  /\ UNCHANGED << now, transactionVars, addressVars, nodeVars, signingVars >>

NextDetect ==
  \/ DetectNodeNetwork
  \/ AddNode
  \/ Tick

SpecDetect == Init /\ [][NextDetect]_vars

\* ----- health checks answered with every outcome of the request -----

FinishNodeHealthCheckAnyOutcome ==
  /\ \E i \in 1..Len(pendingChecks), outcome \in HealthOutcomes :
       /\ pendingChecks[i].kind = "single"
       /\ finishNodeHealthCheck(i, outcome)
  /\ UNCHANGED << now, transactionVars, addressVars, signingVars, currentNetwork, selectedNodeId >>

\* the outcomes the requests of a batch are answered with: well, by a
\* non-2xx status, by a timeout and by a failed connection
BatchHealthOutcomes == {"ok", "httpError", "timeout", "networkError"}

FinishAllHealthChecksAnyOutcome ==
  /\ \E i \in 1..Len(pendingChecks) :
       /\ pendingChecks[i].kind = "all"
       /\ \E outcomes \in [1..Len(pendingChecks[i].snapshot) -> BatchHealthOutcomes] :
            finishAllHealthChecks(i, outcomes)
  /\ UNCHANGED << now, transactionVars, addressVars, signingVars, currentNetwork, selectedNodeId >>

\* one node checked at a time, while nodes are added and removed
NextHealthCheck ==
  \/ AddNode
  \/ RemoveNode
  \/ StartNodeHealthCheck
  \/ FinishNodeHealthCheckAnyOutcome
  \/ Tick

SpecHealthCheck == Init /\ [][NextHealthCheck]_vars

\* performBatchHealthCheck applied to the nodes of the registry, answered
\* within the clock tick it was started in
BatchHealthCheck ==
  /\ \E outcomes \in [1..Len(nodes) -> BatchHealthOutcomes] :
       lastOp' = ReturnedValue("performBatchHealthCheck", outcomes,
                               performBatchHealthCheck(nodes, now, now, outcomes))
  /\ UNCHANGED << now, transactionVars, addressVars, nodeVars, signingVars >>

\* all nodes checked in one batch
NextBatchHealthCheck ==
  \/ AddNode
  \/ BatchHealthCheck
  \/ StartAllHealthChecks
  \/ FinishAllHealthChecksAnyOutcome

SpecBatchHealthCheck == Init /\ [][NextBatchHealthCheck]_vars

\* ----- switching the network over nodes that are online, offline or unknown -----

SwitchHealthOutcomes == {"ok", "timeout"}

FinishNodeHealthCheckOnlineOrOffline ==
  /\ \E i \in 1..Len(pendingChecks), outcome \in SwitchHealthOutcomes :
       /\ pendingChecks[i].kind = "single"
       /\ finishNodeHealthCheck(i, outcome)
  /\ UNCHANGED << now, transactionVars, addressVars, signingVars, currentNetwork, selectedNodeId >>

NextNetworkSwitch ==
  \/ AddNode
  \/ UpdateNode
  \/ SwitchNetwork
  \/ StartNodeHealthCheck
  \/ FinishNodeHealthCheckOnlineOrOffline

SpecNetworkSwitch == Init /\ [][NextNetworkSwitch]_vars

\* ----- the signing orchestrator as a state machine -----

KeyOk == Rep("A", 64)
KeyShort == Rep("A", 63)
HashA == Rep("1", 64)
HashBad == Rep("1", 63)

\* what a caller of executeSigningAtom passes (transactionHash, privateKey)
\* and what the symbol-sdk calls do with it
SigningSdkOutcomes == {"ok", "throwPrivateKey", "throwOther", "throwNonError"}
SigningInputs ==
  {<< HashA, KeyOk, sdkOutcome >> : sdkOutcome \in SigningSdkOutcomes}
    \cup {<< HashA, KeyShort, "ok" >>, << HashBad, KeyOk, "ok" >>}
SigningHashInputs == {HashA, HashBad}

\* executeSigningAtom invoked by any caller, in any state of the store
ExecuteSigning ==
  /\ FreeSlots # {}
  /\ \E input \in SigningInputs :
       executeSigning(NextSlot, input[1], input[2], "TESTNET", input[3])
  /\ UNCHANGED << now, transactionVars, addressVars, nodeVars, modal >>

ResumeAfterSign ==
  /\ \E slot \in 1..MaxInFlight :
       /\ attempts[slot].pc = "signed"
       /\ resumeAfterSign(slot)
  /\ UNCHANGED << now, transactionVars, addressVars, nodeVars, modal >>

ResumeAfterAnnounce ==
  /\ \E slot \in 1..MaxInFlight, outcome \in AnnounceOutcomes :
       /\ attempts[slot].pc = "announcing"
       /\ resumeAfterAnnounce(slot, outcome)
  /\ UNCHANGED << now, transactionVars, addressVars, nodeVars, modal >>

ResetSigning ==
  /\ resetSigning
  /\ lastOp' = Returned("resetSigning")
  /\ UNCHANGED << now, transactionVars, addressVars, nodeVars, attempts, modal >>

ClearSigningError ==
  /\ clearSigningError
  /\ lastOp' = Returned("clearSigningError")
  /\ UNCHANGED << now, transactionVars, addressVars, nodeVars, attempts, modal >>

\* the registry operations that decide whether there is an active address and
\* an active node of the current network
RegisterActiveAddress ==
  /\ addAddress(AddrA, "", TRUE, TRUE)
  /\ UNCHANGED << now, transactionVars, nodeVars, signingVars >>

UnregisterAddress ==
  /\ removeAddress(AddrA)
  /\ UNCHANGED << now, transactionVars, nodeVars, signingVars >>

RegisterActiveNode ==
  /\ addNode(UrlN, "TESTNET", TRUE, TRUE, FALSE, "")
  /\ UNCHANGED << now, transactionVars, addressVars, signingVars, currentNetwork, selectedNodeId, pendingChecks >>

ChangeNetwork ==
  /\ \E network \in NetworkTypes : switchNetwork(network)
  /\ UNCHANGED << now, transactionVars, addressVars, signingVars, selectedNodeId, pendingChecks >>

Next ==
  \/ ExecuteSigning
  \/ ResumeAfterSign
  \/ ResumeAfterAnnounce
  \/ ResetSigning
  \/ ClearSigningError
  \/ RegisterActiveAddress
  \/ UnregisterAddress
  \/ RegisterActiveNode
  \/ ChangeNetwork

Spec == Init /\ [][Next]_vars

\* ----- the private key modal as a state machine -----

\* what the user types or pastes into the key field
KeyInputs == {Rep("a", 64), KeyShort}

OpenModal ==
  /\ \E transactionHash \in SigningHashInputs : openModal(transactionHash)
  /\ UNCHANGED << now, transactionVars, addressVars, nodeVars, signingState, attempts >>

InputChange ==
  /\ \E value \in KeyInputs : handleInputChange(value)
  /\ UNCHANGED << now, transactionVars, addressVars, nodeVars, signingState, attempts >>

HandleSign ==
  /\ \E sdkOutcome \in {"ok", "throwOther"} : handleSign(sdkOutcome)
  /\ UNCHANGED << now, transactionVars, addressVars, nodeVars >>

HandleSignResume ==
  /\ \E slot \in 1..MaxInFlight : handleSignResume(slot)
  /\ UNCHANGED << now, transactionVars, addressVars, nodeVars, signingState, attempts >>

CloseModal ==
  /\ closeModal
  /\ UNCHANGED << now, transactionVars, addressVars, nodeVars, signingState, attempts >>

NextModal ==
  \/ OpenModal
  \/ InputChange
  \/ HandleSign
  \/ HandleSignResume
  \/ CloseModal
  \/ ResumeAfterSign
  \/ ResumeAfterAnnounce
  \/ RegisterActiveAddress
  \/ UnregisterAddress
  \/ RegisterActiveNode
  \/ ChangeNetwork

SpecModal == Init /\ [][NextModal]_vars

\* ----- removal of nodes, with a node selected -----

\* set(selectedNodeIdAtom, id): the atom is a writable primitive atom
SelectNode ==
  /\ \E id \in NodeIdInputs \cup {NoId} :
       /\ selectedNodeId' = id
       /\ lastOp' = Returned("selectNode")
  /\ UNCHANGED << now, transactionVars, addressVars, signingVars, nodes, currentNetwork,
                  pendingChecks >>

NextRemoveNode ==
  \/ AddNode
  \/ SelectNode
  \/ RemoveNode

SpecRemoveNode == Init /\ [][NextRemoveNode]_vars

\* ----- the calls in flight and their ends -----

\* the continuation of the attempt in slot after its await
ResumeAttempt(slot) ==
  /\ \/ attempts[slot].pc = "signed" /\ resumeAfterSign(slot)
     \/ /\ attempts[slot].pc = "announcing"
        /\ \E outcome \in AnnounceOutcomes : resumeAfterAnnounce(slot, outcome)
  /\ UNCHANGED << now, transactionVars, addressVars, nodeVars, modal >>

EndingAnnounceOutcomes == {"202", "timeout"}

\* number of calls (attempts, fetches, health checks) in flight at a time
MaxCallsInFlight == 1

CallsInFlight ==
  Cardinality({slot \in 1..MaxInFlight : attempts[slot].pc # "free"})
    + Len(pendingFetches) + Len(pendingChecks)

\* what a caller of executeSigningAtom passes: a key and hash that sign, and
\* a key that does not
EndingSigningInputs == {<< HashA, KeyOk, "ok" >>, << HashA, KeyShort, "ok" >>}

StartSigningAttempt ==
  /\ CallsInFlight < MaxCallsInFlight
  /\ FreeSlots # {}
  /\ \E input \in EndingSigningInputs :
       executeSigning(NextSlot, input[1], input[2], "TESTNET", input[3])
  /\ UNCHANGED << now, transactionVars, addressVars, nodeVars, modal >>

ResumeSigningAttempt ==
  /\ \E slot \in 1..MaxInFlight :
       \/ attempts[slot].pc = "signed" /\ resumeAfterSign(slot)
       \/ /\ attempts[slot].pc = "announcing"
          /\ \E outcome \in EndingAnnounceOutcomes : resumeAfterAnnounce(slot, outcome)
  /\ UNCHANGED << now, transactionVars, addressVars, nodeVars, modal >>

EndingFetchResponses ==
  {<< OkResponse(<< >>) >>, << TimeoutResponse >>}

FinishFetchTransactionsEnding ==
  /\ \E slot \in 1..Len(pendingFetches), responses \in EndingFetchResponses :
       finishFetchTransactions(slot, responses)
  /\ UNCHANGED << now, addressVars, nodeVars, signingVars >>

StartHealthCheckOfN ==
  /\ CallsInFlight < MaxCallsInFlight
  /\ Len(pendingChecks) < MaxPendingChecks
  /\ startNodeHealthCheck(generateNodeId(UrlN, "TESTNET").id)
  /\ UNCHANGED << now, transactionVars, addressVars, signingVars, nodes, currentNetwork,
                  selectedNodeId >>

StartFetchTransactionsEnding ==
  /\ CallsInFlight < MaxCallsInFlight
  /\ startFetchTransactions
  /\ UNCHANGED << now, addressVars, nodeVars, signingVars >>

NextEnding ==
  \/ RegisterActiveAddress
  \/ RegisterActiveNode
  \/ StartSigningAttempt
  \/ ResumeSigningAttempt
  \/ StartFetchTransactionsEnding
  \/ FinishFetchTransactionsEnding
  \/ StartHealthCheckOfN
  \/ FinishNodeHealthCheckOnlineOrOffline

\* a call that was sent is answered or aborted at its timeout, and the event
\* loop then runs the continuation that awaits it
EndingFairness ==
  /\ \A slot \in 1..MaxInFlight : WF_vars(ResumeAttempt(slot))
  /\ WF_vars(FinishFetchTransactionsEnding)
  /\ WF_vars(FinishNodeHealthCheckOnlineOrOffline)

SpecEnding == Init /\ [][NextEnding]_vars /\ EndingFairness

\* ===== properties =====

\* C9: after any sequence of addAddress, updateAddress, removeAddress and
\* setActiveAddress from the empty registry, at most one address record has
\* active = true.
AtMostOneActiveAddress ==
  Cardinality({i \in 1..Len(addresses) : addresses[i].active}) <= 1

\* an address that had been made active by setActiveAddress was deactivated
\* by the addAddress of a second, active address
AddActiveDeactivatedOthers ==
  /\ lastOp.name = "addAddress" /\ lastOp.ok
  /\ Len(addresses) = 2
  /\ addresses[2].active
  /\ ~addresses[1].active
  /\ addresses[1].lastUsedAt # UndefinedNumber

\* C10: after any sequence of addNode, updateNode, removeNode, setActiveNode,
\* switchNetwork, health checks, initializePresetNodes and mergePresetNodes,
\* each network has at most one node with active = true.
AtMostOneActiveNodePerNetwork ==
  \A network \in NetworkTypes :
    Cardinality({i \in 1..Len(nodes) : nodes[i].active /\ nodes[i].network = network}) <= 1


NonEmptyMessage(message) == message \notin {Null, Undefined, ""}

\* C1: the status changes only along idle->signing, signing->announcing,
\* announcing->success, signing->error, announcing->error and idle->error,
\* and to idle by an explicit reset (resetSigning, clearSigningError); so
\* success and error are left only by a reset, and idle is never followed
\* directly by announcing or success.
StatusChangesOnlyAlongTheMachine ==
  [][\/ signingState'.status = signingState.status
     \/ << signingState.status, signingState'.status >> \in
          {<< "idle", "signing" >>, << "signing", "announcing" >>,
           << "announcing", "success" >>, << "signing", "error" >>,
           << "announcing", "error" >>, << "idle", "error" >>}
     \/ /\ signingState'.status = "idle"
        /\ lastOp'.name \in {"resetSigning", "clearSigningError"}]_vars

\* C2: an executeSigning invoked while the status is signing or announcing
\* starts no second attempt: the invocation calls neither signTransaction nor
\* announceCosignature and leaves transactionHash and cosignature of the
\* attempt in progress as they are.
NoSecondAttemptWhileSigning ==
  [][(isSigning /\ ExecuteSigning) =>
       /\ lastOp'.calls = {}
       /\ attempts'[NextSlot].pc = "free"
       /\ signingState'.transactionHash = signingState.transactionHash
       /\ signingState'.cosignature = signingState.cosignature]_vars

\* C3: an executeSigning invoked with no active address or no active node of
\* the current network sets the status to error with a non-empty message and
\* cosignature null, and its attempt ends having called neither
\* signTransaction nor announceCosignature.
MissingRequirementsGoToError ==
  [][(ExecuteSigning /\ (activeAddress = << >> \/ activeNode = << >>)) =>
       /\ signingState'.status = "error"
       /\ NonEmptyMessage(signingState'.error)
       /\ signingState'.cosignature = NullCosignature
       /\ lastOp'.calls = {}
       /\ attempts'[NextSlot].pc = "free"]_vars

ExecutedWithoutActiveNode ==
  /\ lastOp.name = "executeSigning" /\ lastOp.outcome = "preconditionFailed"
  /\ activeAddress # << >> /\ activeNode = << >>
  /\ signingState.status = "error" /\ signingState.cosignature = NullCosignature
  /\ attempts[lastOp.slot].pc = "free" /\ lastOp.calls = {}

\* C4: when the signing step of an attempt has failed (key or hash not of 64
\* hex characters, or a rejection by the library), the continuation of the
\* attempt sets the status to error with cosignature null and the attempt
\* ends without a call of announceCosignature.
SigningFailureGoesToError ==
  [][\A slot \in 1..MaxInFlight :
       (/\ attempts[slot].pc = "signed"
        /\ attempts'[slot] # attempts[slot]
        /\ \/ ~attempts[slot].signResult.success
           \/ ~IsHex64(attempts[slot].privateKey)
           \/ ~IsHex64(attempts[slot].transactionHash)) =>
         /\ signingState'.status = "error"
         /\ signingState'.cosignature = NullCosignature
         /\ lastOp'.calls = {}
         /\ attempts'[slot].pc = "free"]_vars

SigningRejectedByLibrary ==
  /\ lastOp.name = "resumeAfterSign" /\ lastOp.outcome = "signFailed"
  /\ signingState.status = "error" /\ signingState.cosignature = NullCosignature
  /\ signingState.error = "signing failed: sdk error"
  /\ attempts[lastOp.slot].pc = "free" /\ lastOp.calls = {}

\* C5: the status becomes success only in the continuation of an attempt
\* whose announce request returned HTTP 202, and then the stored cosignature
\* is the one the signing step of that attempt produced and successMessage is
\* set; with any other outcome of the request the continuation sets error.
SuccessOnlyOn202 ==
  [][/\ (signingState'.status = "success" /\ signingState' # signingState) =>
          \E slot \in 1..MaxInFlight :
            /\ attempts[slot].pc = "announcing"
            /\ attempts'[slot].pc = "free"
            /\ lastOp' = SigningStep("resumeAfterAnnounce", slot, "202", {})
            /\ signingState'.cosignature = attempts[slot].signResult.cosignature
            /\ signingState'.cosignature # NullCosignature
            /\ NonEmptyMessage(signingState'.successMessage)
     /\ \A slot \in 1..MaxInFlight, outcome \in AnnounceOutcomes \ {"202"} :
          (/\ attempts[slot].pc = "announcing"
           /\ attempts'[slot].pc = "free"
           /\ lastOp' = SigningStep("resumeAfterAnnounce", slot, outcome, {})) =>
            signingState'.status = "error"]_vars

AnnounceAccepted202 ==
  /\ lastOp.name = "resumeAfterAnnounce" /\ lastOp.outcome = "202"
  /\ signingState.status = "success"
  /\ signingState.cosignature = cosignTransactionHash(KeyOk, HashA)
  /\ NonEmptyMessage(signingState.successMessage)

\* C6: when the announce of an attempt fails (400, 409, another status,
\* timeout, connectivity), the continuation sets the status to error and the
\* stored cosignature is the non-null one the signing step produced; it is
\* the value the announcing state of the attempt held.
AnnounceFailureKeepsCosignature ==
  [][\A slot \in 1..MaxInFlight :
       (/\ attempts[slot].pc = "announcing"
        /\ attempts'[slot].pc = "free"
        /\ lastOp'.outcome # "202") =>
         /\ signingState'.status = "error"
         /\ signingState'.cosignature = attempts[slot].signResult.cosignature
         /\ signingState'.cosignature # NullCosignature
         /\ (signingState.status = "announcing"
             /\ signingState.transactionHash = attempts[slot].transactionHash) =>
              signingState'.cosignature = signingState.cosignature]_vars

AnnounceRejected409 ==
  /\ lastOp.name = "resumeAfterAnnounce" /\ lastOp.outcome = "409"
  /\ signingState.status = "error"
  /\ signingState.cosignature = cosignTransactionHash(KeyOk, HashA)
  /\ signingState.error = "cosignature validation failed"

\* C7: in every reachable state with status = error the error field is a
\* non-empty message.
ErrorStateHasMessage ==
  signingState.status = "error" => NonEmptyMessage(signingState.error)

ErrorAfterAnnounceTimeout ==
  /\ signingState.status = "error"
  /\ lastOp.name = "resumeAfterAnnounce" /\ lastOp.outcome = "timeout"
  /\ signingState.error = "request timed out"

\* C8: once the signing step of an attempt has returned, the working variable
\* of signTransaction holds no key; once the orchestrator has gone on after
\* it (announcing, or the attempt ended), neither the params of
\* executeSigning nor the key state of the modal that awaits the attempt
\* holds a non-empty key.
PrivateKeyReleasedAfterSigning ==
  \A slot \in 1..MaxInFlight :
    /\ attempts[slot].pc \in {"signed", "announcing"} =>
         attempts[slot].signResult.privateKeyString = << >>
    /\ attempts[slot].pc = "announcing" => attempts[slot].privateKey = << >>
    /\ (slot \in modal.awaiting /\ attempts[slot].pc \in {"announcing", "free"}) =>
         modal.privateKey = << >>

AddressKeysOf(list) == {list[i].address : i \in 1..Len(list)}

\* the inputs of addAddress without hyphens and in upper case
UpperCaseWithoutHyphens ==
  [address \in AddressInputs |-> ToUpperCase(SelectSeq(address, LAMBDA c : c # "-"))]

\* C11: addAddress of an input whose form without hyphens and in upper case
\* equals a registered address throws the duplicate error and leaves the
\* registry as it is; after every operation no two records share an address.
DuplicateAddressRejected ==
  [][/\ \A address \in AddressInputs :
          (/\ lastOp'.name = "addAddress"
           /\ UpperCaseWithoutHyphens[address] \in AddressKeysOf(addresses)
           /\ ~(~lastOp'.ok /\ lastOp'.error = "duplicate" /\ addresses' = addresses)) =>
            ~\E memo \in MemoInputs,
                activeKey \in {<< FALSE, FALSE >>, << TRUE, TRUE >>, << TRUE, FALSE >>} :
               addAddress(address, memo, activeKey[1], activeKey[2])
     /\ Cardinality(AddressKeysOf(addresses')) = Len(addresses')]_vars

DuplicateAddRefused ==
  /\ lastOp.name = "addAddress" /\ ~lastOp.ok /\ lastOp.error = "duplicate"
  /\ Len(addresses) = 2
  /\ AddressKeysOf(addresses) = {AddrA, AddrB}


\* C12: setActiveNode(id) for a known node leaves that node active and every
\* other node of its network inactive, and leaves the nodes of the other
\* network as they are; for an unknown id it throws and changes neither the
\* node list nor the current network.
SetActiveNodeTouchesOneNetwork ==
  [][\A nodeId \in NodeIdInputs :
       (lastOp'.name = "setActiveNode" /\ setActiveNode(nodeId)) =>
         IF \E i \in 1..Len(nodes) : nodes[i].id = nodeId
         THEN LET target == CHOOSE i \in 1..Len(nodes) : nodes[i].id = nodeId IN
              /\ lastOp'.ok
              /\ Len(nodes') = Len(nodes)
              /\ \A i \in 1..Len(nodes) :
                   /\ nodes'[i].id = nodes[i].id
                   /\ i = target => nodes'[i].active
                   /\ (i # target /\ nodes[i].network = nodes[target].network) =>
                        ~nodes'[i].active
                   /\ nodes[i].network # nodes[target].network => nodes'[i] = nodes[i]
         ELSE /\ ~lastOp'.ok
              /\ nodes' = nodes
              /\ currentNetwork' = currentNetwork]_vars

SetActiveKeptOtherNetwork ==
  /\ lastOp.name = "setActiveNode" /\ lastOp.ok
  /\ Len(nodes) = 2
  /\ nodes[1].network = "MAINNET" /\ nodes[1].active /\ nodes[1].lastUsedAt = UndefinedNumber
  /\ nodes[2].network = "TESTNET" /\ nodes[2].active /\ nodes[2].lastUsedAt # UndefinedNumber
  /\ currentNetwork = "TESTNET"


\* C13: setActiveAddress(a) for a registered address leaves exactly that
\* record active, stamps lastUsedAt on it alone, and changes no other field
\* and no membership; for an unregistered address it throws and leaves the
\* registry as it is.
SetActiveAddressTouchesTargetOnly ==
  [][\A targetAddress \in AddressKeys :
       (lastOp'.name = "setActiveAddress" /\ setActiveAddress(targetAddress)) =>
         IF targetAddress \in AddressKeysOf(addresses)
         THEN /\ lastOp'.ok
              /\ Len(addresses') = Len(addresses)
              /\ \A i \in 1..Len(addresses) :
                   /\ addresses'[i].address = addresses[i].address
                   /\ addresses'[i].memo = addresses[i].memo
                   /\ addresses'[i].createdAt = addresses[i].createdAt
                   /\ addresses'[i].active = (addresses[i].address = targetAddress)
                   /\ addresses'[i].lastUsedAt =
                        IF addresses[i].address = targetAddress
                        THEN now ELSE addresses[i].lastUsedAt
         ELSE /\ ~lastOp'.ok
              /\ addresses' = addresses]_vars

SetActiveStampedTargetOnly ==
  /\ lastOp.name = "setActiveAddress" /\ lastOp.ok
  /\ now = 1
  /\ Len(addresses) = 2
  /\ addresses[1].active /\ addresses[1].lastUsedAt = 1
  /\ ~addresses[2].active /\ addresses[2].lastUsedAt = 0

\* C14: removeAddress(a) removes exactly the record with key a and leaves
\* the other records as they are and in their order, so that no address is
\* active after the removal of the active one; when a is absent it throws and
\* changes nothing.
RemoveAddressRemovesExactlyOne ==
  [][\A targetAddress \in AddressKeys :
       (lastOp'.name = "removeAddress" /\ removeAddress(targetAddress)) =>
         IF targetAddress \in AddressKeysOf(addresses)
         THEN /\ lastOp'.ok
              /\ Len(addresses') = Len(addresses) - 1
              /\ \E k \in 1..Len(addresses) :
                   /\ addresses[k].address = targetAddress
                   /\ \A j \in 1..Len(addresses') :
                        addresses'[j] = IF j < k THEN addresses[j] ELSE addresses[j + 1]
                   /\ addresses[k].active =>
                        \A j \in 1..Len(addresses') : ~addresses'[j].active
         ELSE /\ ~lastOp'.ok
              /\ addresses' = addresses]_vars

RemovedLeavingNoActive ==
  /\ lastOp.name = "removeAddress" /\ lastOp.ok
  /\ Len(addresses) = 1
  /\ ~addresses[1].active
  /\ addresses[1].lastUsedAt = UndefinedNumber


\* C15: switchNetwork(n) sets the current network to n; when a node of n is
\* active the node list stays as it is; otherwise the first node of n whose
\* status is online, if there is one, becomes the active node of n; a node
\* that is offline or unknown is never made active; a value that is no
\* network type is refused and nothing changes.
SwitchNetworkActivatesOnlineOnly ==
  [][\A network \in NetworkTypes \cup {"DEVNET"} :
       (lastOp'.name = "switchNetwork" /\ switchNetwork(network)) =>
         IF network \in NetworkTypes
         THEN LET InNetwork == {i \in 1..Len(nodes) : nodes[i].network = network}
                  Online == {i \in InNetwork : nodes[i].status = "online"}
              IN
              /\ lastOp'.ok
              /\ currentNetwork' = network
              /\ Len(nodes') = Len(nodes)
              /\ IF \E i \in InNetwork : nodes[i].active
                 THEN nodes' = nodes
                 ELSE IF Online # {}
                      THEN LET first == CHOOSE i \in Online : \A j \in Online : i <= j IN
                           \A i \in InNetwork : nodes'[i].active = (i = first)
                      ELSE nodes' = nodes
              /\ \A i \in 1..Len(nodes) :
                   (nodes'[i].active /\ ~nodes[i].active) => nodes[i].status = "online"
         ELSE /\ ~lastOp'.ok
              /\ nodes' = nodes
              /\ currentNetwork' = currentNetwork]_vars

SwitchSkippedOfflineNode ==
  /\ lastOp.name = "switchNetwork" /\ lastOp.ok
  /\ currentNetwork = "TESTNET"
  /\ Len(nodes) = 2
  /\ nodes[1].network = "TESTNET" /\ nodes[1].status = "offline" /\ ~nodes[1].active
  /\ nodes[2].network = "TESTNET" /\ nodes[2].status = "online" /\ nodes[2].active
  /\ nodes[2].lastUsedAt # UndefinedNumber

\* the ids generateNodeId gives to the servers of the built-in list, in the
\* order of getPresetNodes (TESTNET first)
PresetIds ==
  [k \in 1..Len(presetServers.TESTNET) |->
     generateNodeId(presetServers.TESTNET[k], "TESTNET").id]
    \o [k \in 1..Len(presetServers.MAINNET) |->
          generateNodeId(presetServers.MAINNET[k], "MAINNET").id]

IsPresetDerived(node) == \E k \in 1..Len(PresetIds) : PresetIds[k] = node.id

\* C16: initializePresetNodes on a registry that contains a node of the
\* built-in list changes neither the node list nor the current network.
InitializePresetNodesKeepsPresetRegistry ==
  [][(/\ lastOp'.name = "initializePresetNodes"
      /\ \E i \in 1..Len(nodes) : IsPresetDerived(nodes[i])) =>
       (nodes' = nodes /\ currentNetwork' = currentNetwork)]_vars

\* C17: mergeWithPresetNodes(existing) is existing, as it was and in its
\* order, followed by one node for each server of the built-in list whose id
\* is not in existing, in the order of the list.
MergeAppendsMissingPresets ==
  [][lastOp'.name = "mergePresetNodes" =>
       LET existingIds == {nodes[i].id : i \in 1..Len(nodes)}
           missing == SelectSeq(PresetIds, LAMBDA id : id \notin existingIds)
       IN
       /\ Len(nodes') = Len(nodes) + Len(missing)
       /\ SubSeq(nodes', 1, Len(nodes)) = nodes
       /\ \A k \in 1..Len(missing) : nodes'[Len(nodes) + k].id = missing[k]]_vars

\* the records a batch over the nodes of input answered with outcomes is to
\* return: one per node, in order, with the id of the node, online when the
\* request was answered well and offline with an error otherwise
BatchRecordsMatch(results, input, outcomes) ==
  /\ Len(results) = Len(input)
  /\ \A k \in 1..Len(input) :
       /\ results[k].nodeId = input[k].id
       /\ IF outcomes[k] = "ok"
          THEN results[k].status = "online"
          ELSE /\ results[k].status = "offline"
               /\ results[k].error # Undefined
               /\ results[k].error # ""

\* C18: a batch health check over N nodes returns N records, one per node with
\* the id of the node; the records of the failing checks are offline with a
\* non-empty error, the others online, and the batch itself returns whatever
\* the checks ended in.  (performAllHealthChecksAtom writes one node per node
\* of its input, with the same id, so the ids of its input are those of nodes.)
BatchReturnsOneRecordPerNode ==
  lastOp.name \in {"performBatchHealthCheck", "performAllHealthChecks"} =>
    (lastOp.ok /\ BatchRecordsMatch(lastOp.value, nodes, lastOp.outcome))

BatchWithOneFailure ==
  /\ lastOp.name = "performBatchHealthCheck" /\ lastOp.ok
  /\ lastOp.outcome = << "timeout", "ok" >>
  /\ Len(nodes) = 2
  /\ Len(lastOp.value) = 2
  /\ lastOp.value[1].nodeId = nodes[1].id
  /\ lastOp.value[1].status = "offline" /\ lastOp.value[1].error = "Request timeout"
  /\ lastOp.value[2].nodeId = nodes[2].id
  /\ lastOp.value[2].status = "online"

\* the outcomes in which the response was 2xx and its body was parsed
ParsedOutcomes == {"ok", "nullBody"}

\* C19: a health check of a node, whatever its request ends in, returns a
\* record to its caller: with the check time, online with the response time
\* and the node information exactly when the response was 2xx and parsed, and
\* offline with an error otherwise.
HealthCheckReturnsRecord ==
  [][(/\ lastOp'.name = "performNodeHealthCheck"
      /\ Len(pendingChecks') < Len(pendingChecks)) =>
       /\ lastOp'.ok
       /\ Len(lastOp'.value) = 1
       /\ LET healthCheck == lastOp'.value[1] IN
          /\ healthCheck.checkedAt # UndefinedNumber
          /\ IF lastOp'.outcome \in ParsedOutcomes
             THEN /\ healthCheck.status = "online"
                  /\ healthCheck.responseTime # UndefinedNumber
                  /\ healthCheck.hasNodeInfo
             ELSE /\ healthCheck.status = "offline"
                  /\ NonEmptyMessage(healthCheck.error)]_vars

\* C20: detectNodeNetwork returns MAINNET exactly when the node reports the
\* identifier 104 and TESTNET exactly when it reports 152; for every other
\* identifier, a missing one included, it returns the unsupported-network
\* error and no network; a timeout, a failed connection and a non-2xx status
\* give error results with three different reasons; nothing is thrown.
DetectMapsIdentifierOrReportsError ==
  /\ lastOp.name = "detectNodeNetwork" =>
       LET outcome == lastOp.outcome[1]
           networkIdentifier == lastOp.outcome[2]
           result == lastOp.value[1]
       IN
       /\ lastOp.ok
       /\ (~result.hasError /\ result.network = "MAINNET") <=>
            (outcome = "ok" /\ networkIdentifier = NumberValue(104))
       /\ (~result.hasError /\ result.network = "TESTNET") <=>
            (outcome = "ok" /\ networkIdentifier = NumberValue(152))
       /\ (/\ outcome \in ParsedOutcomes
           /\ networkIdentifier \notin {NumberValue(104), NumberValue(152)}) =>
            (result.hasError /\ result.error = "unsupported network" /\ result.network = Null)
       /\ outcome \in {"timeout", "networkError", "httpError"} =>
            (/\ result.hasError /\ NonEmptyMessage(result.error)
             /\ result.error # "unsupported network" /\ result.network = Null)
  /\ \A o1, o2 \in {"timeout", "networkError", "httpError"} :
       o1 # o2 => detectNodeNetwork(o1, UndefinedValue).error
                    # detectNodeNetwork(o2, UndefinedValue).error

\* the order of the qualities and of the statuses, best first
QualityOrder == << "excellent", "good", "fair", "poor", "unknown" >>
StatusOrder == << "online", "unknown", "offline" >>

PositionIn(order, x) == CHOOSE k \in 1..Len(order) : order[k] = x

\* C21: evaluateNodeQuality(t) is excellent for t < 100, good for
\* 100 <= t < 500, fair for 500 <= t < 2000, poor for t >= 2000 and unknown
\* for undefined; the quality priority grows strictly along excellent, good,
\* fair, poor, unknown, and the status priority along online, unknown, offline.
QualityClassesAndPriorities ==
  /\ lastOp.name = "evaluateNodeQuality" =>
       LET responseTime == lastOp.outcome
           quality == lastOp.value[1].quality
       IN
       IF responseTime = UndefinedValue THEN quality = "unknown"
       ELSE LET t == responseTime.number IN
            /\ (quality = "excellent") = (t < 100)
            /\ (quality = "good") = (100 <= t /\ t < 500)
            /\ (quality = "fair") = (500 <= t /\ t < 2000)
            /\ (quality = "poor") = (t >= 2000)
  /\ \A a, b \in ResponseTimeInputs :
       PositionIn(QualityOrder, evaluateNodeQuality(a))
         < PositionIn(QualityOrder, evaluateNodeQuality(b))
       => getNodeQualityPriority(a) < getNodeQualityPriority(b)
  /\ \A a, b \in NodeStatuses :
       PositionIn(StatusOrder, a) < PositionIn(StatusOrder, b)
       => getNodeStatusPriority(a) < getNodeStatusPriority(b)

QualityAtTheLimitOfGood ==
  /\ lastOp.name = "evaluateNodeQuality"
  /\ lastOp.outcome = NumberValue(100)
  /\ lastOp.value[1].quality = "good"
  /\ lastOp.value[1].priority = 1

VariantsByBase == [base \in ValidAddresses |-> VariantsOf(base)]

\* C22: every variant of a valid 39-character address in another letter case
\* and / or with a hyphen after each group of 6 characters is accepted by
\* validateSymbolAddress and normalized to that address; a normalized address
\* is returned as it is.
VariantsNormalizeToTheSameAddress ==
  lastOp.name = "validateSymbolAddress" =>
    \A base \in ValidAddresses :
      lastOp.outcome \in VariantsByBase[base] =>
        (lastOp.value[1].isValid /\ lastOp.value[1].normalizedAddress = base)

HyphenatedLowerCaseAccepted ==
  /\ lastOp.name = "validateSymbolAddress"
  /\ lastOp.outcome = Hyphenate(ToLowerCase(AddrMixed))
  /\ Len(lastOp.outcome) = 45
  /\ lastOp.value[1].isValid
  /\ lastOp.value[1].normalizedAddress = AddrMixed

\* the ASCII letters in lower case the inputs use
LowerCaseLetters == {"a", "b", "n", "m"}

\* address is, up to letter case, 39 characters of A-Z, 2-7, without hyphens
\* or with hyphens at the offsets of the 45-character form and nowhere else
WellFormedAddress(address) ==
  LET stripped == SeqFilterOut(address, "-") IN
  /\ Len(stripped) = AddressLength
  /\ \A i \in 1..Len(stripped) : stripped[i] \in BASE32_CHARS \cup LowerCaseLetters
  /\ stripped # address =>
       {i \in 1..Len(address) : address[i] = "-"} = {pos + 1 : pos \in expectedHyphens}

IllFormedInputs == {address \in ValidationInputs : ~WellFormedAddress(address)}

\* C23: address validation rejects every input that without its hyphens is
\* not 39 characters long or has a character outside A-Z, 2-7, and every
\* input whose hyphens are not at the offsets 6, 13, 20, 27, 34 and 41; no
\* such input is added to the registry.
IllFormedAddressRejected ==
  [][/\ lastOp'.name = "validateSymbolAddress" =>
          (lastOp'.outcome \in IllFormedInputs => ~lastOp'.value[1].isValid)
     /\ lastOp'.name = "validateFormattedAddress" =>
          (lastOp'.outcome \in IllFormedInputs => ~lastOp'.value[1].isValid)
     /\ (lastOp'.name = "addAddress" /\ lastOp'.ok) =>
          \A address \in IllFormedInputs : ~addAddress(address, "", FALSE, FALSE)]_vars

\* the rule of validateNodeUrl a url violates first: 1 missing, 2 not
\* parsed, 3 scheme, 4 port, 5 host; 0 when it violates none
FirstViolatedRule(url) ==
  LET parsed == ParseUrl(url) IN
  IF url = << >> THEN 1
  ELSE IF ~parsed.ok THEN 2
  ELSE IF parsed.protocol # "https://" THEN 3
  ELSE IF parsed.port \notin {"", ":3000", ":3001"} THEN 4
  ELSE IF parsed.hostname \in {"", "localhost", "127.0.0.1"} THEN 5
  ELSE 0

NormalizeNodeUrlIsIdempotent ==
  lastOp.name = "normalizeNodeUrl" =>
    LET normalized == lastOp.value IN
    /\ normalized = ToLowerCase(normalized)
    /\ normalized = << >> \/ normalized[Len(normalized)] # "/"
    /\ normalizeNodeUrl(normalized) = normalized

RECURSIVE StripTrailingSlashes(_)
StripTrailingSlashes(url) ==
  IF url # << >> /\ url[Len(url)] = "/"
  THEN StripTrailingSlashes(SubSeq(url, 1, Len(url) - 1)) ELSE url

\* the endpoint a url stands for: the url in lower case without trailing slashes
Endpoint(url) == StripTrailingSlashes(ToLowerCase(url))

\* C26: an addNode for the endpoint and network of a node added before
\* computes the id of that node, is refused as a duplicate and leaves the
\* registry as it is; no two nodes ever share an id.
SameEndpointIsDuplicate ==
  [][/\ lastOp'.name = "addNode" =>
          \A url \in AddUrlInputs :
            (/\ \E i \in 1..Len(nodes) :
                  /\ nodes[i].id = generateNodeId(nodes[i].url, nodes[i].network).id
                  /\ nodes[i].network = "TESTNET"
                  /\ Endpoint(nodes[i].url) = Endpoint(url)
             /\ FirstViolatedRule(url) = 0
             /\ addNode(url, "TESTNET", FALSE, FALSE, FALSE, ""))
            => (~lastOp'.ok /\ lastOp'.error = "duplicate" /\ nodes' = nodes)
     /\ Cardinality({nodes'[i].id : i \in 1..Len(nodes')}) = Len(nodes')]_vars

\* the items of the answer a result of fetchPartialTransactions was made from
AnsweredItems == lastOp.outcome.responses[Len(lastOp.outcome.responses)].body

\* C27: a transaction mapped from an item with a deadline of d milliseconds
\* keeps the deadline as it came and has the instant 1615852585000 + d as
\* createdAt, so that createdAt less the genesis instant is d.
CreatedAtIsGenesisPlusDeadline ==
  (/\ lastOp.name \in {"fetchPartialTransactions", "fetchPartialTransactionsWithFetch"}
   /\ lastOp.value[1].result.success)
  => LET transactions == lastOp.value[1].result.data IN
     /\ Len(transactions) = Len(AnsweredItems)
     /\ \A i \in 1..Len(transactions) :
          /\ transactions[i].deadline = AnsweredItems[i].deadline
          /\ IsDigitString(AnsweredItems[i].deadline) =>
               /\ transactions[i].createdAt.valid
               /\ transactions[i].createdAt.time =
                    Plus(nemesisTimestamp, Number(AnsweredItems[i].deadline).digits)

\* the answer a result of fetchPartialTransactions was made from
LastAnswer == lastOp.outcome.responses[Len(lastOp.outcome.responses)]

\* C28: with node url and address given, 404 is reported as NOT_FOUND, 409 as
\* INVALID_ARGUMENT, another status outside 2xx as SERVER_ERROR with the status
\* in the message, a timeout as TIMEOUT, a failed connection as
\* NETWORK_ERROR; TIMEOUT and NETWORK_ERROR are reported for nothing but a
\* timeout and a failed connection, the three others for nothing but a status.
FailureCausesHaveTheirOwnKind ==
  (/\ lastOp.name \in {"fetchPartialTransactions", "fetchPartialTransactionsWithFetch"}
   /\ lastOp.outcome.params.nodeUrl # << >>
   /\ lastOp.outcome.params.address # << >>)
  => LET error == lastOp.value[1].result.error
         failed == ~lastOp.value[1].result.success
     IN
     /\ LastAnswer.kind = "http" =>
          /\ failed
          /\ LastAnswer.status = "404" => error.code = "NOT_FOUND"
          /\ LastAnswer.status = "409" => error.code = "INVALID_ARGUMENT"
          /\ LastAnswer.status \notin {"404", "409"} =>
               /\ error.code = "SERVER_ERROR"
               /\ \E k \in 1..Len(error.message) : error.message[k] = LastAnswer.status
     /\ LastAnswer.kind = "timeout" => failed /\ error.code = "TIMEOUT"
     /\ LastAnswer.kind = "networkError" => failed /\ error.code = "NETWORK_ERROR"
     /\ (failed /\ error.code = "TIMEOUT") => LastAnswer.kind = "timeout"
     /\ (failed /\ error.code = "NETWORK_ERROR") => LastAnswer.kind = "networkError"
     /\ (failed /\ error.code \in {"NOT_FOUND", "INVALID_ARGUMENT", "SERVER_ERROR"})
          => LastAnswer.kind = "http"

\* C29: fetchPartialTransactions without node url or address fails with
\* INVALID_PARAMS and sends no request; a fetch started while no address or
\* no node of the current network is active stores an error, sends no
\* request, ends with loading false and keeps the transactions and their
\* date. (A step of the clock keeps lastOp; a step that ends a fetch takes
\* it from pendingFetches.)
FetchWithoutParamsOnlyRecordsError ==
  [][/\ lastOp'.name = "fetchPartialTransactions" =>
          LET fetched == lastOp'.value[1] IN
          (lastOp'.outcome.params.nodeUrl = << >> \/ lastOp'.outcome.params.address = << >>)
          => /\ ~fetched.result.success
             /\ fetched.result.error.code = "INVALID_PARAMS"
             /\ fetched.result.error.message # << >>
             /\ fetched.requests = 0
             /\ transactionListState' = transactionListState
     /\ (/\ lastOp'.name = "fetchTransactions"
         /\ now' = now
         /\ Len(pendingFetches') >= Len(pendingFetches)
         /\ (activeAddress = << >> \/ activeNode = << >>))
        => /\ transactionListState'.error # << >>
           /\ ~transactionListState'.loading
           /\ transactionListState'.transactions = transactionListState.transactions
           /\ transactionListState'.lastUpdated = transactionListState.lastUpdated
           /\ pendingFetches' = pendingFetches
           /\ lastOp'.calls = 0]_vars

FetchRefusedKeepingTransactions ==
  /\ lastOp.name = "fetchTransactions"
  /\ lastOp.outcome = "missing"
  /\ activeAddress = << >>
  /\ transactionListState.transactions # << >>
  /\ transactionListState.error # << >>
  /\ ~transactionListState.loading

\* C30: nothing is retried automatically; for the fetch of the transaction
\* list: a fetch that was started and has ended has sent at most one request,
\* so none after a request that failed.
FetchSendsAtMostOneRequest ==
  (lastOp.name = "fetchTransactions" /\ lastOp.outcome \notin {"started", "missing"})
  => lastOp.calls <= 1

RemoveNodeRemovesExactlyOne ==
  [][lastOp'.name = "removeNode" =>
       \A nodeId \in NodeIdInputs :
         removeNode(nodeId) =>
           /\ currentNetwork' = currentNetwork
           /\ IF \E i \in 1..Len(nodes) : nodes[i].id = nodeId
              THEN /\ lastOp'.ok
                   /\ \E i \in 1..Len(nodes) :
                        nodes[i].id = nodeId /\ nodes' = RemoveAt(nodes, i)
                   /\ selectedNodeId' = IF selectedNodeId = nodeId THEN NoId
                                        ELSE selectedNodeId
              ELSE /\ ~lastOp'.ok
                   /\ lastOp'.error = "not found"
                   /\ nodes' = nodes
                   /\ selectedNodeId' = selectedNodeId]_vars

RemovedNodeNextToSelectedOne ==
  /\ lastOp.name = "removeNode"
  /\ lastOp.ok
  /\ Len(nodes) = 1
  /\ selectedNodeId = nodes[1].id
  /\ ~nodes[1].active

\* a body of the form the mapping needs: an object with an array data of
\* items that lack nothing and a pagination with numbers
WellFormedBody(body) ==
  /\ body.kind = "object"
  /\ body.data.kind = "array"
  /\ \A i \in 1..Len(body.data.items) : body.data.items[i].missing = {}
  /\ body.pagination.kind = "object"
  /\ body.pagination.pageNumber.type = "number"
  /\ body.pagination.pageSize.type = "number"

\* C33: a 2xx answer whose body lacks the data array, the pagination with
\* numeric pageNumber and pageSize, or a key of an item is reported as
\* INVALID_RESPONSE without transactions, not as a network error.
MalformedBodyIsInvalidResponse ==
  (/\ lastOp.name \in {"fetchPartialTransactions", "fetchPartialTransactionsWithFetch"}
   /\ ~WellFormedBody(lastOp.outcome))
  => LET result == lastOp.value[1].result IN
     /\ ~result.success
     /\ result.data = << >>
     /\ result.error.code = "INVALID_RESPONSE"

\* C34: the fields of the signing state agree with its status: with signing
\* cosignature, error and successMessage are null; with announcing the
\* cosignature is set, error and successMessage are null; with success
\* cosignature and successMessage are set and error is null; with error the
\* error is set and successMessage is null; with every status but idle the
\* transactionHash is set.
SigningFieldsAgreeWithStatus ==
  /\ signingState.status = "signing" =>
       /\ signingState.cosignature = NullCosignature
       /\ signingState.error = Null
       /\ signingState.successMessage = Null
  /\ signingState.status = "announcing" =>
       /\ signingState.cosignature # NullCosignature
       /\ signingState.error = Null
       /\ signingState.successMessage = Null
  /\ signingState.status = "success" =>
       /\ signingState.cosignature # NullCosignature
       /\ signingState.successMessage # Null
       /\ signingState.error = Null
  /\ signingState.status = "error" =>
       /\ signingState.error # Null
       /\ signingState.successMessage = Null
  /\ signingState.status # "idle" => signingState.transactionHash # << >>

AnnouncingWithCosignature ==
  /\ signingState.status = "announcing"
  /\ signingState.cosignature # NullCosignature
  /\ signingState.cosignature.parentHash = signingState.transactionHash
  /\ \E slot \in 1..MaxInFlight : attempts[slot].pc = "signed"

\* C35: with status idle, transactionHash, cosignature, error and
\* successMessage are null: at the start, after resetSigning and after
\* clearSigningError.
IdleStateHasNoFields ==
  signingState.status = "idle" =>
    /\ signingState.transactionHash = << >>
    /\ signingState.cosignature = NullCosignature
    /\ signingState.error = Null
    /\ signingState.successMessage = Null

\* C36: after a resetSigning made while an attempt is in flight the signing
\* state stays idle until executeSigning is invoked again: the continuation
\* of the abandoned attempt, after its signing step or its announce, leaves
\* the idle state as it is.
AbandonedAttemptLeavesIdleState ==
  [][(/\ signingState = IdleState
      /\ lastOp'.name \in {"resumeAfterSign", "resumeAfterAnnounce"})
     => signingState' = signingState]_vars

\* the fields of a node a health check has nothing to write into
RegistryFields == NodeFields \ ({"status", "responseTime", "lastCheckedAt", "lastError"}
                                \cup NodeInfoKeys)

\* C37: the write of the all-nodes health check changes health and discovered
\* fields only: the registry holds the same nodes in the same order before
\* and after it, each with its url, network, active flag and memo, whatever
\* was added, removed or changed while the batch was awaiting its results.
BatchWriteKeepsRegistry ==
  [][(/\ lastOp'.name = "performAllHealthChecks"
      /\ Len(pendingChecks') < Len(pendingChecks))
     => /\ Len(nodes') = Len(nodes)
        /\ \A k \in 1..Len(nodes) : \A f \in RegistryFields : nodes'[k][f] = nodes[k][f]]_<< nodes, pendingChecks >>

\* C40: initializePresetNodes on a registry that is not empty and holds no
\* node of the built-in list replaces the node list by the built-in list, one
\* node per server in the order of the list, sets the current network to
\* TESTNET, and leaves exactly the first server of each network active.
InitializeReplacesCustomRegistryByPresets ==
  [][(/\ lastOp'.name = "initializePresetNodes"
      /\ now' = now
      /\ Len(nodes) > 0
      /\ \A i \in 1..Len(nodes) : ~IsPresetDerived(nodes[i]))
     => /\ Len(nodes') = Len(PresetIds)
        /\ \A k \in 1..Len(PresetIds) :
             /\ nodes'[k].id = PresetIds[k]
             /\ nodes'[k].active <=> k \in {1, Len(presetServers.TESTNET) + 1}
        /\ currentNetwork' = "TESTNET"]_vars

\* C38: loading is true as long as a fetch is in flight, also when another
\* fetch that overlapped it has completed already.
LoadingWhileAnyFetchInFlight ==
  pendingFetches # << >> => transactionListState.loading

\* C39: a fetch that failed sets loading to false and records the message
\* of its error, and leaves the transaction list and lastUpdated as they
\* were; a fetch that succeeded replaces the list by the transactions of the
\* answer, clears the error, sets loading to false and stamps lastUpdated.
\* (A step of the clock leaves lastOp as it is and is no step of a fetch.)
FailedFetchKeepsListAndStamp ==
  [][(/\ lastOp'.name = "fetchTransactions"
      /\ now' = now
      /\ Len(pendingFetches') < Len(pendingFetches))
     => IF lastOp'.outcome = "success"
        THEN /\ \E responses \in StoreResponseSequences :
                  LET result == fetchPartialTransactions(pendingFetches[lastOp'.slot],
                                                         responses).result
                  IN result.success /\ transactionListState'.transactions = result.data
             /\ transactionListState'.error = << >>
             /\ transactionListState'.loading = FALSE
             /\ transactionListState'.lastUpdated = now
        ELSE /\ transactionListState'.loading = FALSE
             /\ transactionListState'.error # << >>
             /\ \E responses \in StoreResponseSequences :
                  LET result == fetchPartialTransactions(pendingFetches[lastOp'.slot],
                                                         responses).result
                  IN ~result.success /\ transactionListState'.error = result.error.message
             /\ transactionListState'.transactions = transactionListState.transactions
             /\ transactionListState'.lastUpdated = transactionListState.lastUpdated]_vars

\* a fetch has failed after an earlier one had filled the list
FetchFailedOverFilledList ==
  /\ lastOp.name = "fetchTransactions"
  /\ lastOp.outcome \notin {"success", "started", "missing"}
  /\ transactionListState.transactions # << >>
  /\ transactionListState.lastUpdated # InitialTransactionListState.lastUpdated
  /\ transactionListState.error # << >>
  /\ ~transactionListState.loading

====
